---- MODULE Spec2Model ----
(***************************************************************************)
(* Model of conniver's Linux TCP_INFO decoder and of its users:            *)
(*   - package linux: the kernel capability gate (init,                    *)
(*     CheckKernelVersion), RawTCPInfo.Unpack (raw block -> TCPInfo) and   *)
(*     GetTCPInfo (getsockopt + error classification + Unpack),            *)
(*   - package exporter: the Prometheus collector TCPInfoCollector,        *)
(*   - concurrent callers of Unpack,                                       *)
(*   - connections wrapped by WrapConn and their reporting function.       *)
(* Nilable Go pointers are sequences of length <= 1: <<>> is nil, <<v>> is *)
(* a pointer to v.  A nil error is 0, any other error is its errno.        *)
(* The arguments of the calls and the answers of the operating system are  *)
(* drawn in the initial state (input, sockets); call and ret hold the last *)
(* call of package linux and what it returned, scrape the last operation   *)
(* on the collector.                                                       *)
(***************************************************************************)
EXTENDS Integers, Sequences, FiniteSets, TLC

VARIABLES linuxKernelVersion, phase, input, call, ret, prev,
          sockets, collector, scrape, lifecycle, threads, wrapped

vars == <<linuxKernelVersion, phase, input, call, ret, prev,
          sockets, collector, scrape, lifecycle, threads, wrapped>>

\* the state of the exporter, of the concurrent callers of Unpack and of the
\* wrapped connections, which the calls of package linux leave alone
exporterVars == <<sockets, collector, scrape, lifecycle>>
callerVars == <<threads, wrapped>>

----------------------------------------------------------------------------
(* Bounds of the model *)

\* kernel versions detected or asked for range over
\* KernelValues x MajorValues x 0..MaxMinor
MaxKernel == 6
MaxMinor == 1
\* largest file descriptor handed to GetTCPInfo
MaxFd == 1

KernelValues == 4..MaxKernel
MajorValues == {0, 3, 4, 5, 17}

----------------------------------------------------------------------------
(* Program constants *)

minKernel == 5
minKernelMajor == 4
minKernelMinor == 0

\* variant: the size of struct tcp_info of v4.19, before rcv_ooopack and snd_wnd
sizeOfRawTCPInfo_v419 == 232 - 8

sizeOfRawTCPInfo == 232

\* the package-level errors; each holds the syscall errno of the same name
EAGAIN == 11
EINVAL == 22
ENOENT == 2

----------------------------------------------------------------------------
(* Bit operations on unsigned integers *)

RECURSIVE BitAnd(_, _)
BitAnd(x, y) ==
    IF x = 0 \/ y = 0 THEN 0
    ELSE (x % 2) * (y % 2) + 2 * BitAnd(x \div 2, y \div 2)

RECURSIVE Pow2(_)
Pow2(n) == IF n = 0 THEN 1 ELSE 2 * Pow2(n - 1)

Shr(x, n) == x \div Pow2(n)

\* left shift inside a uint8
Shl8(x, n) == (x * Pow2(n)) % 256

\* bitwise or of two values with no common bit is their sum; general case
BitOr(x, y) == x + y - BitAnd(x, y)

----------------------------------------------------------------------------
(* RawTCPInfo: the fields in declaration order, with their width in bytes *)

RawFields == <<
    <<"state", 1>>, <<"ca_state", 1>>, <<"retransmits", 1>>, <<"probes", 1>>,
    <<"backoff", 1>>, <<"options", 1>>, <<"bitfield0", 1>>, <<"bitfield1", 1>>,
    <<"rto", 4>>, <<"ato", 4>>, <<"snd_mss", 4>>, <<"rcv_mss", 4>>,
    <<"unacked", 4>>, <<"sacked", 4>>, <<"lost", 4>>, <<"retrans", 4>>,
    <<"fackets", 4>>, <<"last_data_sent", 4>>, <<"last_ack_sent", 4>>,
    <<"last_data_recv", 4>>, <<"last_ack_recv", 4>>, <<"pmtu", 4>>,
    <<"rcv_ssthresh", 4>>, <<"rtt", 4>>, <<"rttvar", 4>>, <<"snd_ssthresh", 4>>,
    <<"snd_cwnd", 4>>, <<"advmss", 4>>, <<"reordering", 4>>, <<"rcv_rtt", 4>>,
    <<"rcv_space", 4>>, <<"total_retrans", 4>>,
    <<"pacing_rate", 8>>, <<"max_pacing_rate", 8>>, <<"bytes_acked", 8>>,
    <<"bytes_received", 8>>,
    <<"segs_out", 4>>, <<"segs_in", 4>>, <<"notsent_bytes", 4>>, <<"min_rtt", 4>>,
    <<"data_segs_in", 4>>, <<"data_segs_out", 4>>,
    <<"delivery_rate", 8>>, <<"busy_time", 8>>, <<"rwnd_limited", 8>>,
    <<"sndbuf_limited", 8>>,
    <<"delivered", 4>>, <<"delivered_ce", 4>>,
    <<"bytes_sent", 8>>, <<"bytes_retrans", 8>>,
    <<"dsack_dups", 4>>, <<"reord_seen", 4>>, <<"rcv_ooopack", 4>>,
    <<"snd_wnd", 4>> >>

RawFieldNames == {RawFields[i][1] : i \in 1..Len(RawFields)}

\* the zero value of RawTCPInfo (var value RawTCPInfo)
ZeroRaw == [f \in RawFieldNames |-> 0]

RECURSIVE OffsetOf(_)
\* byte offset of the i-th field: the widths before it (the layout has no padding)
OffsetOf(i) == IF i = 1 THEN 0 ELSE OffsetOf(i - 1) + RawFields[i - 1][2]

\* the first multiple of a at or after x
AlignUp[x \in Nat, a \in {1, 4, 8}] == ((x + a - 1) \div a) * a

\* byte offset the Go compiler gives the i-th field: each field is aligned to
\* its own width (1, 4 or 8 bytes), padding is inserted where needed
GoOffsets[i \in 1..Len(RawFields)] ==
    IF i = 1 THEN 0
    ELSE AlignUp[GoOffsets[i - 1] + RawFields[i - 1][2], RawFields[i][2]]

\* the offsets of all fields when they are laid out back to back
PackedOffsets == [i \in 1..Len(RawFields) |-> OffsetOf(i)]

\* unsafe.Sizeof(RawTCPInfo{}): the end of the last field rounded up to the
\* largest alignment of a field
GoSizeof ==
    LET n == Len(RawFields)
        maxAlign == CHOOSE a \in {RawFields[i][2] : i \in 1..n} :
                        \A j \in 1..n : RawFields[j][2] <= a
    IN  AlignUp[GoOffsets[n] + RawFields[n][2], maxAlign]

\* position of a field in the declaration order
IndexOf == [f \in RawFieldNames |-> CHOOSE i \in 1..Len(RawFields) : RawFields[i][1] = f]

\* offset of the first byte after each field
EndOf == [f \in RawFieldNames |-> OffsetOf(IndexOf[f]) + RawFields[IndexOf[f]][2]]

----------------------------------------------------------------------------
(* TCPInfo: the fields in declaration order *)

TCPInfoFields == <<
    "State", "CAState", "Retransmits", "Probes", "Backoff", "Options",
    "SndWScale", "RcvWScale", "DeliveryRateAppLimited", "FastOpenClientFail",
    "RTO", "ATO", "SndMSS", "RcvMSS", "UnAcked", "Sacked", "Lost", "Retrans",
    "Fackets", "LastDataSent", "LastAckSent", "LastDataRecv", "LastAckRecv",
    "PMTU", "RcvSSThresh", "RTT", "RTTVar", "SndSSThresh", "SndCWnd", "AdvMSS",
    "Reordering", "RcvRTT", "RcvSpace", "TotalRetrans",
    "PacingRate", "MaxPacingRate", "BytesAcked", "BytesReceived",
    "SegsOut", "SegsIn", "NotsentBytes", "MinRTT", "DataSegsIn", "DataSegsOut",
    "DeliveryRate", "BusyTime", "RwndLimited", "SndbufLimited",
    "Delivered", "DeliveredCE", "BytesSent", "BytesRetrans",
    "DSACKDups", "ReordSeen", "RcvOOOPack", "SndWnd" >>

\* the zero value of NullableUint8
NullUint8 == [Valid |-> FALSE, Value |-> 0]

----------------------------------------------------------------------------
(* The capability gate *)

\* kernel.CompareKernelVersion: -1, 0 or 1 as a is below, equal to or above b,
\* comparing Kernel, then Major, then Minor
CompareKernelVersion(a, b) ==
    IF a.Kernel < b.Kernel THEN -1
    ELSE IF a.Kernel > b.Kernel THEN 1
    ELSE IF a.Major < b.Major THEN -1
    ELSE IF a.Major > b.Major THEN 1
    ELSE IF a.Minor < b.Minor THEN -1
    ELSE IF a.Minor > b.Minor THEN 1
    ELSE 0

\* variant: an equal version is refused (<= 0 instead of < 0)
CheckKernelVersion_Strict(k, major, minor) ==
    IF CompareKernelVersion(linuxKernelVersion[1],
                            [Kernel |-> k, Major |-> major, Minor |-> minor]) <= 0
    THEN FALSE
    ELSE TRUE

CheckKernelVersion(k, major, minor) ==
    IF CompareKernelVersion(linuxKernelVersion[1],
                            [Kernel |-> k, Major |-> major, Minor |-> minor]) < 0
    THEN FALSE
    ELSE TRUE

----------------------------------------------------------------------------
(* RawTCPInfo.Unpack *)

\* unpacked.SndWScale = packed.bitfield0 & 0x0f
Unpack_SndWScale(packed) == BitAnd(packed.bitfield0, 15)

\* variant: the receive scale read from the low nibble as well
Unpack_RcvWScale_LowNibble(packed) == BitAnd(packed.bitfield0, 15)

\* unpacked.RcvWScale = packed.bitfield0 >> 4
Unpack_RcvWScale(packed) == Shr(packed.bitfield0, 4)

\* variant: the flag is honoured only from 5.5.0 on, like the field next to it
Unpack_DeliveryRateAppLimited_Gated(packed) ==
    CheckKernelVersion(5, 5, 0) /\ (BitAnd(packed.bitfield1, 1) = 1)

\* unpacked.DeliveryRateAppLimited = packed.bitfield1&1 == 1
Unpack_DeliveryRateAppLimited(packed) == (BitAnd(packed.bitfield1, 1) = 1)

\* variant: the gate asks for the minimum kernel instead of 5.5.0
Unpack_FastOpenClientFail_WrongVersion(packed) ==
    IF CheckKernelVersion(5, 4, 0)
    THEN [Valid |-> TRUE, Value |-> BitAnd(Shr(packed.bitfield1, 1), 3)]
    ELSE NullUint8

\* variant: the mask 0x3 is missing
Unpack_FastOpenClientFail_NoMask(packed) ==
    IF CheckKernelVersion(5, 5, 0)
    THEN [Valid |-> TRUE, Value |-> Shr(packed.bitfield1, 1)]
    ELSE NullUint8

\* variant: the shift by one is missing
Unpack_FastOpenClientFail_NoShift(packed) ==
    IF CheckKernelVersion(5, 5, 0)
    THEN [Valid |-> TRUE, Value |-> BitAnd(packed.bitfield1, 3)]
    ELSE NullUint8

\* variant: Valid is set outside the gated branch
Unpack_FastOpenClientFail_AlwaysValid(packed) ==
    [Valid |-> TRUE,
     Value |-> IF CheckKernelVersion(5, 5, 0)
               THEN BitAnd(Shr(packed.bitfield1, 1), 3) ELSE 0]

\* variant: unpacked is a variable shared by the calls instead of a fresh
\* local, so the ungated branch keeps what the previous call left
Unpack_FastOpenClientFail_Stale(packed) ==
    IF CheckKernelVersion(5, 5, 0)
    THEN [Valid |-> TRUE, Value |-> BitAnd(Shr(packed.bitfield1, 1), 3)]
    ELSE IF ret.info # <<>> THEN ret.info[1].FastOpenClientFail ELSE NullUint8

\* variant: the mask is 0x7, one bit too wide
Unpack_FastOpenClientFail_WideMask(packed) ==
    IF CheckKernelVersion(5, 5, 0)
    THEN [Valid |-> TRUE, Value |-> BitAnd(Shr(packed.bitfield1, 1), 7)]
    ELSE NullUint8

\* unpacked.FastOpenClientFail: set only if CheckKernelVersion(5, 5, 0),
\* otherwise left at the zero value of the fresh TCPInfo
Unpack_FastOpenClientFail(packed) ==
    IF CheckKernelVersion(5, 5, 0)
    THEN [Valid |-> TRUE, Value |-> BitAnd(Shr(packed.bitfield1, 1), 3)]
    ELSE NullUint8

\* variant: LastAckSent copied from the field above it
Unpack_CopyPaste(packed) ==
    [ State                  |-> packed.state,
      CAState                |-> packed.ca_state,
      Retransmits            |-> packed.retransmits,
      Probes                 |-> packed.probes,
      Backoff                |-> packed.backoff,
      Options                |-> packed.options,
      SndWScale              |-> Unpack_SndWScale(packed),
      RcvWScale              |-> Unpack_RcvWScale(packed),
      DeliveryRateAppLimited |-> Unpack_DeliveryRateAppLimited(packed),
      FastOpenClientFail     |-> Unpack_FastOpenClientFail(packed),
      RTO                    |-> packed.rto,
      ATO                    |-> packed.ato,
      SndMSS                 |-> packed.snd_mss,
      RcvMSS                 |-> packed.rcv_mss,
      UnAcked                |-> packed.unacked,
      Sacked                 |-> packed.sacked,
      Lost                   |-> packed.lost,
      Retrans                |-> packed.retrans,
      Fackets                |-> packed.fackets,
      LastDataSent           |-> packed.last_data_sent,
      LastAckSent            |-> packed.last_data_sent,
      LastDataRecv           |-> packed.last_data_recv,
      LastAckRecv            |-> packed.last_ack_recv,
      PMTU                   |-> packed.pmtu,
      RcvSSThresh            |-> packed.rcv_ssthresh,
      RTT                    |-> packed.rtt,
      RTTVar                 |-> packed.rttvar,
      SndSSThresh            |-> packed.snd_ssthresh,
      SndCWnd                |-> packed.snd_cwnd,
      AdvMSS                 |-> packed.advmss,
      Reordering             |-> packed.reordering,
      RcvRTT                 |-> packed.rcv_rtt,
      RcvSpace               |-> packed.rcv_space,
      TotalRetrans           |-> packed.total_retrans,
      PacingRate             |-> packed.pacing_rate,
      MaxPacingRate          |-> packed.max_pacing_rate,
      BytesAcked             |-> packed.bytes_acked,
      BytesReceived          |-> packed.bytes_received,
      SegsOut                |-> packed.segs_out,
      SegsIn                 |-> packed.segs_in,
      NotsentBytes           |-> packed.notsent_bytes,
      MinRTT                 |-> packed.min_rtt,
      DataSegsIn             |-> packed.data_segs_in,
      DataSegsOut            |-> packed.data_segs_out,
      DeliveryRate           |-> packed.delivery_rate,
      BusyTime               |-> packed.busy_time,
      RwndLimited            |-> packed.rwnd_limited,
      SndbufLimited          |-> packed.sndbuf_limited,
      Delivered              |-> packed.delivered,
      DeliveredCE            |-> packed.delivered_ce,
      BytesSent              |-> packed.bytes_sent,
      BytesRetrans           |-> packed.bytes_retrans,
      DSACKDups              |-> packed.dsack_dups,
      ReordSeen              |-> packed.reord_seen,
      RcvOOOPack             |-> packed.rcv_ooopack,
      SndWnd                 |-> packed.snd_wnd ]

Unpack(packed) ==
    [ State                  |-> packed.state,
      CAState                |-> packed.ca_state,
      Retransmits            |-> packed.retransmits,
      Probes                 |-> packed.probes,
      Backoff                |-> packed.backoff,
      Options                |-> packed.options,
      SndWScale              |-> Unpack_SndWScale(packed),
      RcvWScale              |-> Unpack_RcvWScale(packed),
      DeliveryRateAppLimited |-> Unpack_DeliveryRateAppLimited(packed),
      FastOpenClientFail     |-> Unpack_FastOpenClientFail(packed),
      RTO                    |-> packed.rto,
      ATO                    |-> packed.ato,
      SndMSS                 |-> packed.snd_mss,
      RcvMSS                 |-> packed.rcv_mss,
      UnAcked                |-> packed.unacked,
      Sacked                 |-> packed.sacked,
      Lost                   |-> packed.lost,
      Retrans                |-> packed.retrans,
      Fackets                |-> packed.fackets,
      LastDataSent           |-> packed.last_data_sent,
      LastAckSent            |-> packed.last_ack_sent,
      LastDataRecv           |-> packed.last_data_recv,
      LastAckRecv            |-> packed.last_ack_recv,
      PMTU                   |-> packed.pmtu,
      RcvSSThresh            |-> packed.rcv_ssthresh,
      RTT                    |-> packed.rtt,
      RTTVar                 |-> packed.rttvar,
      SndSSThresh            |-> packed.snd_ssthresh,
      SndCWnd                |-> packed.snd_cwnd,
      AdvMSS                 |-> packed.advmss,
      Reordering             |-> packed.reordering,
      RcvRTT                 |-> packed.rcv_rtt,
      RcvSpace               |-> packed.rcv_space,
      TotalRetrans           |-> packed.total_retrans,
      PacingRate             |-> packed.pacing_rate,
      MaxPacingRate          |-> packed.max_pacing_rate,
      BytesAcked             |-> packed.bytes_acked,
      BytesReceived          |-> packed.bytes_received,
      SegsOut                |-> packed.segs_out,
      SegsIn                 |-> packed.segs_in,
      NotsentBytes           |-> packed.notsent_bytes,
      MinRTT                 |-> packed.min_rtt,
      DataSegsIn             |-> packed.data_segs_in,
      DataSegsOut            |-> packed.data_segs_out,
      DeliveryRate           |-> packed.delivery_rate,
      BusyTime               |-> packed.busy_time,
      RwndLimited            |-> packed.rwnd_limited,
      SndbufLimited          |-> packed.sndbuf_limited,
      Delivered              |-> packed.delivered,
      DeliveredCE            |-> packed.delivered_ce,
      BytesSent              |-> packed.bytes_sent,
      BytesRetrans           |-> packed.bytes_retrans,
      DSACKDups              |-> packed.dsack_dups,
      ReordSeen              |-> packed.reord_seen,
      RcvOOOPack             |-> packed.rcv_ooopack,
      SndWnd                 |-> packed.snd_wnd ]

----------------------------------------------------------------------------
(* GetTCPInfo *)

\* getsockopt(fd, SOL_TCP, TCP_INFO, &value, &length) as GetTCPInfo sees it:
\* on an error nothing is written; on success the kernel writes the first
\* min(length, ksize) bytes of its tcp_info (kinfo) into value, which was
\* zero-initialised, and stores that length.
Getsockopt(errNo, kinfo, ksize) ==
    LET n == IF ksize < sizeOfRawTCPInfo THEN ksize ELSE sizeOfRawTCPInfo
    IN  IF errNo # 0
        THEN [errNo |-> errNo, length |-> sizeOfRawTCPInfo, value |-> ZeroRaw]
        ELSE [errNo |-> 0, length |-> n,
              value |-> [f \in RawFieldNames |-> IF EndOf[f] <= n THEN kinfo[f] ELSE 0]]

\* variant: EINVAL is reported as ENOENT
GetTCPInfo_Misclassified(fd, sys) ==
    IF sys.errNo # 0
    THEN IF sys.errNo = EAGAIN
         THEN [info |-> <<>>, err |-> EAGAIN, unpacked |-> FALSE]
         ELSE IF sys.errNo = EINVAL
         THEN [info |-> <<>>, err |-> ENOENT, unpacked |-> FALSE]
         ELSE IF sys.errNo = ENOENT
         THEN [info |-> <<>>, err |-> ENOENT, unpacked |-> FALSE]
         ELSE [info |-> <<>>, err |-> sys.errNo, unpacked |-> FALSE]
    ELSE [info |-> <<Unpack(sys.value)>>, err |-> 0, unpacked |-> TRUE]

\* variant: only the three named errors are returned, any other errno falls
\* through to Unpack
GetTCPInfo_Swallowed(fd, sys) ==
    IF sys.errNo = EAGAIN
    THEN [info |-> <<>>, err |-> EAGAIN, unpacked |-> FALSE]
    ELSE IF sys.errNo = EINVAL
    THEN [info |-> <<>>, err |-> EINVAL, unpacked |-> FALSE]
    ELSE IF sys.errNo = ENOENT
    THEN [info |-> <<>>, err |-> ENOENT, unpacked |-> FALSE]
    ELSE [info |-> <<Unpack(sys.value)>>, err |-> 0, unpacked |-> TRUE]

\* the (record, error) pair GetTCPInfo returns for the outcome sys of its
\* system call; unpacked tells whether Unpack was applied to sys.value
GetTCPInfo(fd, sys) ==
    IF sys.errNo # 0
    THEN IF sys.errNo = EAGAIN
         THEN [info |-> <<>>, err |-> EAGAIN, unpacked |-> FALSE]
         ELSE IF sys.errNo = EINVAL
         THEN [info |-> <<>>, err |-> EINVAL, unpacked |-> FALSE]
         ELSE IF sys.errNo = ENOENT
         THEN [info |-> <<>>, err |-> ENOENT, unpacked |-> FALSE]
         ELSE [info |-> <<>>, err |-> sys.errNo, unpacked |-> FALSE]
    ELSE [info |-> <<Unpack(sys.value)>>, err |-> 0, unpacked |-> TRUE]

----------------------------------------------------------------------------
(* MockSetFields / set_fields: the test helper that fills a raw block through
   the C bit-fields of struct tcp_info (first bit-field in the low bits) *)

set_fields(snd_wscale, rcv_wscale, delivery_rate_app_limited, fastopen_client_fail) ==
    [ZeroRaw EXCEPT
        !.bitfield0 = BitOr(BitAnd(snd_wscale, 15), Shl8(BitAnd(rcv_wscale, 15), 4)),
        !.bitfield1 = BitOr(IF delivery_rate_app_limited THEN 1 ELSE 0,
                            Shl8(BitAnd(fastopen_client_fail, 3), 1))]

MockSetFields(packed, SndWScale, RcvWScale, DeliveryRateAppLimited, FastOpenClientFail) ==
    set_fields(SndWScale, RcvWScale, DeliveryRateAppLimited, FastOpenClientFail)

----------------------------------------------------------------------------
(* Inputs *)

Versions ==
    [Kernel : KernelValues, Major : MajorValues, Minor : 0..MaxMinor]

\* the kernel versions the unit test installs in the gate
TestKernels ==
    { [Kernel |-> minKernel, Major |-> minKernelMajor, Minor |-> minKernelMinor],
      [Kernel |-> 5, Major |-> 5, Minor |-> 0] }

\* sample values of a field of w bytes (TLC integers end at 2^31 - 1)
SampleValues(w) == IF w = 1 THEN {1, 255} ELSE {1, 65536, 2147483647}

\* a block whose i-th field holds base + i: no two fields agree
DistinctRaw(base) == [f \in RawFieldNames |-> base + IndexOf[f]]

\* values the test table passes to MockSetFields
MockScales == {0, 1, 15}

RawBlocks ==
    {[ZeroRaw EXCEPT !.bitfield0 = b] : b \in 0..255}
    \cup {[ZeroRaw EXCEPT !.bitfield1 = b] : b \in 0..255}
    \cup UNION {{[ZeroRaw EXCEPT ![RawFields[i][1]] = v] :
                    v \in SampleValues(RawFields[i][2])} : i \in 1..Len(RawFields)}
    \cup {DistinctRaw(0), DistinctRaw(100)}
    \cup {MockSetFields(ZeroRaw, s, r, d, f) :
            s \in MockScales, r \in MockScales, d \in BOOLEAN, f \in 0..3}

\* errno values of getsockopt: success, the three the package names, and
\* EBADF, ENOTSOCK, ENOPROTOOPT
Errnos == {0, ENOENT, 9, EAGAIN, EINVAL, 88, 92}

\* sizeof(struct tcp_info) of the running kernel: 104 (before v3.15),
\* 224 (v4.19), 232 (v5.4 .. v5.17), 248 (later)
KernelSizes == {104, 224, sizeOfRawTCPInfo, 248}

KernelInfos == {DistinctRaw(0), DistinctRaw(100)}

\* the input of a behaviour: the function the caller calls (op) and its
\* arguments: the triple asked of CheckKernelVersion, the raw block handed to
\* Unpack, or the descriptor and system-call outcome of GetTCPInfo
DefaultInput ==
    [op |-> "none", k |-> minKernel, major |-> minKernelMajor, minor |-> minKernelMinor,
     packed |-> ZeroRaw,
     fd |-> 0, errNo |-> 0, kinfo |-> ZeroRaw, ksize |-> sizeOfRawTCPInfo]

Inputs ==
    {[DefaultInput EXCEPT !.op = "CheckKernelVersion", !.k = v.Kernel, !.major = v.Major, !.minor = v.Minor] :
        v \in Versions}
    \cup {[DefaultInput EXCEPT !.op = "Unpack", !.packed = p] : p \in RawBlocks}
    \cup {[DefaultInput EXCEPT !.op = "GetTCPInfo", !.fd = fd, !.errNo = e, !.kinfo = ki, !.ksize = ks] :
            fd \in 0..MaxFd, e \in Errnos, ki \in KernelInfos, ks \in KernelSizes}

----------------------------------------------------------------------------
(* Package exporter: the data of the Prometheus collector *)

\* connections the process holds (net.Conn values)
MaxConns == 2
Conns == 1..MaxConns

\* netfd.GetFdFromConn: the descriptor of a connection; 0, 1 and 2 are the
\* standard streams
GetFdFromConn(conn) == conn + 2

\* the connection a descriptor belongs to
ConnOfFd(fd) == fd - 2

\* label values the callers of Add pass
LabelValues == {<<"client">>, <<"server">>}

\* prefix the collector is built with
Prefixes == {"tcpinfo"}

\* the infos NewTCPInfoCollector always registers, in the order of the source:
\* the key of the description and the TCPInfo field the supplier reads
InfoTable == <<
    <<"state", "State">>, <<"ca_state", "CAState">>,
    <<"retransmits", "Retransmits">>, <<"probes", "Probes">>,
    <<"backoff", "Backoff">>, <<"options", "Options">>,
    <<"snd_wscale", "SndWScale">>, <<"rcv_wscale", "RcvWScale">>,
    <<"delivery_rate_app_limited", "DeliveryRateAppLimited">>, <<"rto", "RTO">>,
    <<"ato", "ATO">>, <<"snd_mss", "SndMSS">>,
    <<"rcv_mss", "RcvMSS">>, <<"unacked", "UnAcked">>,
    <<"sacked", "Sacked">>, <<"lost", "Lost">>,
    <<"retrans", "Retrans">>, <<"fackets", "Fackets">>,
    <<"last_data_sent", "LastDataSent">>, <<"last_ack_sent", "LastAckSent">>,
    <<"last_data_recv", "LastDataRecv">>, <<"last_ack_recv", "LastAckRecv">>,
    <<"pmtu", "PMTU">>, <<"rcv_ssthresh", "RcvSSThresh">>,
    <<"rtt", "RTT">>, <<"rttvar", "RTTVar">>,
    <<"snd_ssthresh", "SndSSThresh">>, <<"snd_cwnd", "SndCWnd">>,
    <<"advmss", "AdvMSS">>, <<"reordering", "Reordering">>,
    <<"rcv_rtt", "RcvRTT">>, <<"rcv_space", "RcvSpace">>,
    <<"total_retrans", "TotalRetrans">>, <<"pacing_rate", "PacingRate">>,
    <<"max_pacing_rate", "MaxPacingRate">>, <<"bytes_acked", "BytesAcked">>,
    <<"bytes_received", "BytesReceived">>, <<"segs_out", "SegsOut">>,
    <<"segs_in", "SegsIn">>, <<"notsent_bytes", "NotsentBytes">>,
    <<"min_rtt", "MinRTT">>, <<"data_segs_in", "DataSegsIn">>,
    <<"data_segs_out", "DataSegsOut">>, <<"delivery_rate", "DeliveryRate">>,
    <<"busy_time", "BusyTime">>, <<"rwnd_limited", "RwndLimited">>,
    <<"sndbuf_limited", "SndbufLimited">>, <<"delivered", "Delivered">>,
    <<"delivered_ce", "DeliveredCE">>, <<"bytes_sent", "BytesSent">>,
    <<"bytes_retrans", "BytesRetrans">>, <<"dsack_dups", "DSACKDups">>,
    <<"reord_seen", "ReordSeen">>, <<"rcv_ooopack", "RcvOOOPack">>,
    <<"snd_wnd", "SndWnd">> >>

\* the info appended when the kernel is at least 5.5.0
FastOpenInfo == <<"fastopen_client_fail", "FastOpenClientFail">>

InfoKeys == {InfoTable[i][1] : i \in 1..Len(InfoTable)} \cup {FastOpenInfo[1]}

\* makeDescriptions: the description of every key: its fully qualified name
\* prefix_key and the value its help text announces for an unavailable
\* reading ("(-1.0 if unavailable)"), if it announces one
makeDescriptions(prefix) ==
    [k \in InfoKeys |->
        [fqName |-> <<prefix, k>>,
         unavailable |-> IF k = "fastopen_client_fail" THEN <<-1>> ELSE <<>>]]

\* float64(x) of an unsigned integer: exact below 2^53, which holds every
\* value of the model
float64(x) == x

\* variant: every supplier builds its metric from the description of state
supplier_OtherDescription(inf, tcpInfo, labelValues, conn) ==
    [description |-> [inf.description EXCEPT !.fqName = <<@[1], "state">>],
     value |-> IF inf.field = "DeliveryRateAppLimited"
               THEN (IF tcpInfo.DeliveryRateAppLimited THEN 1 ELSE 0)
               ELSE IF inf.field = "FastOpenClientFail"
               THEN float64(tcpInfo.FastOpenClientFail.Value)
               ELSE float64(tcpInfo[inf.field]),
     labelValues |-> labelValues,
     conn |-> conn]

\* the metric a supplier builds: its description, the value read from the
\* record and the label values; conn names the entry the label values come from
supplier(inf, tcpInfo, labelValues, conn) ==
    [description |-> inf.description,
     value |-> IF inf.field = "DeliveryRateAppLimited"
               THEN (IF tcpInfo.DeliveryRateAppLimited THEN 1 ELSE 0)
               ELSE IF inf.field = "FastOpenClientFail"
               THEN float64(tcpInfo.FastOpenClientFail.Value)
               ELSE float64(tcpInfo[inf.field]),
     labelValues |-> labelValues,
     conn |-> conn]

\* the map of connections with no entry
NoConns == [c \in {} |-> [fd |-> 0, labels |-> <<>>]]

\* the zero value of sync.Mutex; a locked mutex holds the thread that locked it
Unlocked == <<>>

\* variant: the fast-open info is registered whatever the kernel
NewTCPInfoCollector_Always(prefix) ==
    LET desc == makeDescriptions(prefix)
        infos == [i \in 1..Len(InfoTable) |->
                    [description |-> desc[InfoTable[i][1]], field |-> InfoTable[i][2]]]
    IN  [conns |-> NoConns,
         mu |-> Unlocked,
         infos |-> Append(infos, [description |-> desc[FastOpenInfo[1]],
                                  field |-> FastOpenInfo[2]])]

\* variant: the fast-open info is registered from the minimum kernel on
NewTCPInfoCollector_FromFloor(prefix) ==
    LET desc == makeDescriptions(prefix)
        infos == [i \in 1..Len(InfoTable) |->
                    [description |-> desc[InfoTable[i][1]], field |-> InfoTable[i][2]]]
    IN  [conns |-> NoConns,
         mu |-> Unlocked,
         infos |-> IF CheckKernelVersion(minKernel, minKernelMajor, minKernelMinor)
                   THEN Append(infos, [description |-> desc[FastOpenInfo[1]],
                                       field |-> FastOpenInfo[2]])
                   ELSE infos]

\* NewTCPInfoCollector: no connection, an unlocked mutex, and the infos, the
\* last of which is registered only when the gate is at least 5.5.0
NewTCPInfoCollector(prefix) ==
    LET desc == makeDescriptions(prefix)
        infos == [i \in 1..Len(InfoTable) |->
                    [description |-> desc[InfoTable[i][1]], field |-> InfoTable[i][2]]]
    IN  [conns |-> NoConns,
         mu |-> Unlocked,
         infos |-> IF CheckKernelVersion(5, 5, 0)
                   THEN Append(infos, [description |-> desc[FastOpenInfo[1]],
                                       field |-> FastOpenInfo[2]])
                   ELSE infos]

\* raw blocks the kernel holds for the sockets of the exporter
ExporterBlocks ==
    {[DistinctRaw(0) EXCEPT !.bitfield1 = 7], [ZeroRaw EXCEPT !.bitfield1 = 2]}

\* what getsockopt answers for a socket: a block of the kernel, or EAGAIN
SocketAnswers ==
    {[errNo |-> 0, kinfo |-> b, ksize |-> sizeOfRawTCPInfo] : b \in ExporterBlocks}
    \cup {[errNo |-> EAGAIN, kinfo |-> ZeroRaw, ksize |-> sizeOfRawTCPInfo]}

NoSockets == [c \in Conns |-> [errNo |-> 0, kinfo |-> ZeroRaw, ksize |-> sizeOfRawTCPInfo]]

\* what the last operation on the collector did: the operation, the gate it
\* ran under, its connection and labels, the descriptions Describe sent, and
\* for Collect the entries it started with, the number of calls of GetTCPInfo
\* per connection, the record GetTCPInfo returned for each connection it
\* could query, the metrics in the order they were sent (sent) and as a set
\* (metrics), and the errors handed to the logger per connection
NoScrape ==
    [op |-> "none", gate |-> <<>>, conn |-> 0, labels |-> <<>>, descs |-> <<>>,
     before |-> NoConns, calls |-> <<>>, queried |-> <<>>, sent |-> <<>>,
     metrics |-> {}, logged |-> <<>>]

\* what happened last to each connection as far as the collector goes:
\* "never" registered, "added", "removed" or "failed" (acquisition failure)
NoLifecycle == [c \in Conns |-> "never"]

\* callers of Unpack and wrapped connections: none
NoThreads == <<>>
NoWrapped == <<>>

----------------------------------------------------------------------------
(* State: the gate, the life cycle of the package, and the last call made
   with what it returned *)

NoCall == [op |-> "none", gate |-> <<>>, k |-> 0, major |-> 0, minor |-> 0,
           raw |-> ZeroRaw, fd |-> 0, errNo |-> 0, length |-> 0]

NoRet == [ok |-> FALSE, info |-> <<>>, err |-> 0, unpacked |-> FALSE]

Init ==
    /\ linuxKernelVersion = <<>>
    /\ phase = "start"
    /\ input \in Inputs
    /\ call = NoCall
    /\ ret = NoRet
    /\ prev = <<>>
    /\ sockets = NoSockets
    /\ collector = <<>>
    /\ scrape = NoScrape
    /\ lifecycle = NoLifecycle
    /\ threads = NoThreads
    /\ wrapped = NoWrapped

\* variant: the check of the minimum version is made but a kernel that is
\* too old does not panic
init_NoFloor ==
    /\ phase = "start"
    /\ \E detected \in {<<>>} \cup {<<v>> : v \in Versions} :
        /\ linuxKernelVersion' = detected
        /\ IF detected = <<>>
           THEN /\ phase' = "panicked"
                /\ call' = [NoCall EXCEPT !.op = "init"]
                /\ ret' = NoRet
           ELSE /\ call' = [NoCall EXCEPT !.op = "init", !.gate = detected,
                               !.k = minKernel, !.major = minKernelMajor,
                               !.minor = minKernelMinor]
                /\ ret' = [NoRet EXCEPT
                              !.ok = CheckKernelVersion(minKernel, minKernelMajor,
                                                        minKernelMinor)']
                /\ phase' = "ready"
    /\ UNCHANGED <<input, prev>>
    /\ UNCHANGED <<exporterVars, callerVars>>

\* package init: detect the kernel version, panic when detection fails or
\* the version is below minKernel.minKernelMajor.minKernelMinor
init ==
    /\ phase = "start"
    /\ \E detected \in {<<>>} \cup {<<v>> : v \in Versions} :
        /\ linuxKernelVersion' = detected
        /\ IF detected = <<>>
           THEN /\ phase' = "panicked"
                /\ call' = [NoCall EXCEPT !.op = "init"]
                /\ ret' = NoRet
           ELSE /\ call' = [NoCall EXCEPT !.op = "init", !.gate = detected,
                               !.k = minKernel, !.major = minKernelMajor,
                               !.minor = minKernelMinor]
                /\ ret' = [NoRet EXCEPT
                              !.ok = CheckKernelVersion(minKernel, minKernelMajor,
                                                        minKernelMinor)']
                /\ phase' = IF ret'.ok THEN "ready" ELSE "panicked"
    /\ UNCHANGED <<input, prev>>
    /\ UNCHANGED <<exporterVars, callerVars>>

\* the unit test overrides the gate: linuxKernelVersion = &tt.fields.kernel
\* (the test binary of package linux, which holds no collector)
TestSetKernel ==
    /\ phase = "ready"
    /\ input.op # "exporter"
    /\ \E v \in TestKernels : linuxKernelVersion' = <<v>>
    /\ UNCHANGED <<phase, input, call, ret, prev>>
    /\ UNCHANGED <<exporterVars, callerVars>>

DoCheckKernelVersion ==
    /\ phase = "ready"
    /\ input.op = "CheckKernelVersion"
    /\ call' = [NoCall EXCEPT !.op = "CheckKernelVersion",
                   !.gate = linuxKernelVersion,
                   !.k = input.k, !.major = input.major, !.minor = input.minor]
    /\ ret' = [NoRet EXCEPT !.ok = CheckKernelVersion(input.k, input.major, input.minor)]
    /\ UNCHANGED <<linuxKernelVersion, phase, input, prev>>
    /\ UNCHANGED <<exporterVars, callerVars>>

\* a call of packed.Unpack() and the record it returns
UnpackCall(packed) ==
    /\ call' = [NoCall EXCEPT !.op = "Unpack", !.gate = linuxKernelVersion,
                   !.raw = packed]
    /\ ret' = [NoRet EXCEPT !.info = <<Unpack(packed)>>, !.unpacked = TRUE]

\* variant: a decode that raises the gate to the version whose bits it honours
DoUnpack_WritesGate ==
    /\ phase = "ready"
    /\ input.op = "Unpack"
    /\ UnpackCall(input.packed)
    /\ linuxKernelVersion' = <<[Kernel |-> 5, Major |-> 5, Minor |-> 0]>>
    /\ UNCHANGED <<phase, input, prev>>
    /\ UNCHANGED <<exporterVars, callerVars>>

DoUnpack ==
    /\ phase = "ready"
    /\ input.op = "Unpack"
    /\ UnpackCall(input.packed)
    /\ UNCHANGED <<linuxKernelVersion, phase, input, prev>>
    /\ UNCHANGED <<exporterVars, callerVars>>

DoGetTCPInfo ==
    /\ phase = "ready"
    /\ input.op = "GetTCPInfo"
    /\ LET sys == Getsockopt(input.errNo, input.kinfo, input.ksize)
           r == GetTCPInfo(input.fd, sys)
       IN  /\ call' = [NoCall EXCEPT !.op = "GetTCPInfo", !.gate = linuxKernelVersion,
                          !.fd = input.fd, !.errNo = sys.errNo, !.length = sys.length,
                          !.raw = sys.value]
           /\ ret' = [NoRet EXCEPT !.info = r.info, !.err = r.err,
                         !.unpacked = r.unpacked]
    /\ UNCHANGED <<linuxKernelVersion, phase, input, prev>>
    /\ UNCHANGED <<exporterVars, callerVars>>

\* Unpack called again by a caller that keeps an earlier call and its record
\* (prev) to compare with: prev is left alone or becomes the call that this
\* one replaces
DoUnpackObserved ==
    /\ phase = "ready"
    /\ input.op = "Unpack"
    /\ UnpackCall(input.packed)
    /\ prev' \in {prev} \cup
                 (IF call.op = "Unpack"
                  THEN {<<[gate |-> call.gate, raw |-> call.raw, info |-> ret.info[1]]>>}
                  ELSE {})
    /\ UNCHANGED <<linuxKernelVersion, phase, input>>
    /\ UNCHANGED <<exporterVars, callerVars>>

Next ==
    \/ init
    \/ TestSetKernel
    \/ DoCheckKernelVersion
    \/ DoUnpack
    \/ DoGetTCPInfo

Spec == Init /\ [][Next]_vars

\* repeated Unpack calls on one raw block while the gate changes
DetBlocks ==
    {[ZeroRaw EXCEPT !.bitfield1 = b] : b \in 0..7}
    \cup {[ZeroRaw EXCEPT !.bitfield0 = 31], DistinctRaw(0), DistinctRaw(100)}

InitDet == Init /\ input.op = "Unpack" /\ input.packed \in DetBlocks

NextDet ==
    \/ init
    \/ TestSetKernel
    \/ DoUnpackObserved

SpecDet == InitDet /\ [][NextDet]_vars

----------------------------------------------------------------------------
(* Package exporter: the operations of TCPInfoCollector.  Add, Remove and
   Collect hold the mutex of the collector for their whole body. *)

DoNewTCPInfoCollector ==
    /\ phase = "ready"
    /\ input.op = "exporter"
    /\ collector = <<>>
    /\ \E prefix \in Prefixes : collector' = <<NewTCPInfoCollector(prefix)>>
    /\ scrape' = [NoScrape EXCEPT !.op = "NewTCPInfoCollector",
                                  !.gate = linuxKernelVersion]
    /\ UNCHANGED <<linuxKernelVersion, phase, input, call, ret, prev, sockets,
                   lifecycle, callerVars>>

\* Describe sends the description of every info, in order
Describe ==
    /\ phase = "ready"
    /\ input.op = "exporter"
    /\ collector # <<>>
    /\ scrape' = [NoScrape EXCEPT !.op = "Describe", !.gate = linuxKernelVersion,
                     !.descs = [i \in 1..Len(collector[1].infos) |->
                                    collector[1].infos[i].description]]
    /\ UNCHANGED <<linuxKernelVersion, phase, input, call, ret, prev, sockets,
                   collector, lifecycle, callerVars>>

\* variant: an entry that exists is kept as it is
AddConn_KeepsFirst(conns, conn, labels) ==
    [c \in (DOMAIN conns) \cup {conn} |->
        IF c \in DOMAIN conns
        THEN conns[c]
        ELSE [fd |-> GetFdFromConn(conn), labels |-> labels]]

\* t.conns[conn] = connEntry{fd, labels}: the map with the entry of conn
\* stored or replaced
AddConn(conns, conn, labels) ==
    [c \in (DOMAIN conns) \cup {conn} |->
        IF c = conn
        THEN [fd |-> GetFdFromConn(conn), labels |-> labels]
        ELSE conns[c]]

\* variant: the entry stays
RemoveConn_Keeps(conns, conn) == conns

\* variant: the map is emptied
RemoveConn_Clears(conns, conn) ==
    IF conn \in DOMAIN conns THEN NoConns ELSE conns

\* delete(t.conns, conn): the map without the entry of conn
RemoveConn(conns, conn) == [c \in (DOMAIN conns) \ {conn} |-> conns[c]]

\* Add stores (or replaces) the entry of conn
Add ==
    /\ phase = "ready"
    /\ input.op = "exporter"
    /\ collector # <<>>
    /\ \E conn \in Conns, labels \in LabelValues :
        /\ collector' = <<[collector[1] EXCEPT !.conns = AddConn(@, conn, labels)]>>
        /\ scrape' = [NoScrape EXCEPT !.op = "Add", !.gate = linuxKernelVersion,
                         !.conn = conn, !.labels = labels,
                         !.before = collector[1].conns]
        /\ lifecycle' = [lifecycle EXCEPT ![conn] = "added"]
    /\ UNCHANGED <<linuxKernelVersion, phase, input, call, ret, prev, sockets, callerVars>>

\* Remove deletes the entry of conn, if there is one
Remove ==
    /\ phase = "ready"
    /\ input.op = "exporter"
    /\ collector # <<>>
    /\ \E conn \in Conns :
        /\ collector' = <<[collector[1] EXCEPT !.conns = RemoveConn(@, conn)]>>
        /\ scrape' = [NoScrape EXCEPT !.op = "Remove", !.gate = linuxKernelVersion,
                         !.conn = conn, !.before = collector[1].conns]
        /\ lifecycle' = [lifecycle EXCEPT ![conn] = "removed"]
    /\ UNCHANGED <<linuxKernelVersion, phase, input, call, ret, prev, sockets, callerVars>>

\* variant: a connection whose query failed stays in the map
CollectOne_KeepsConn(st, conn) ==
    LET entry == st.conns[conn]
        answer == sockets[ConnOfFd(entry.fd)]
        r == GetTCPInfo(entry.fd, Getsockopt(answer.errNo, answer.kinfo, answer.ksize))
    IN  IF r.err # 0
        THEN [st EXCEPT !.calls[conn] = @ + 1,
                        !.logged[conn] = Append(@, r.err)]
        ELSE [st EXCEPT
                !.calls[conn] = @ + 1,
                !.queried = [c \in (DOMAIN @) \cup {conn} |->
                                IF c = conn THEN r.info[1] ELSE @[c]],
                !.sent = @ \o [i \in 1..Len(st.infos) |->
                                supplier(st.infos[i], r.info[1], entry.labels, conn)]]

\* variant: the record is acquired again for every info
CollectOne_Requery(st, conn) ==
    LET entry == st.conns[conn]
        answer == sockets[ConnOfFd(entry.fd)]
        r == GetTCPInfo(entry.fd, Getsockopt(answer.errNo, answer.kinfo, answer.ksize))
    IN  IF r.err # 0
        THEN [st EXCEPT !.calls[conn] = @ + 1,
                        !.logged[conn] = Append(@, r.err),
                        !.conns = RemoveConn(@, conn)]
        ELSE [st EXCEPT
                !.calls[conn] = @ + Len(st.infos),
                !.queried = [c \in (DOMAIN @) \cup {conn} |->
                                IF c = conn THEN r.info[1] ELSE @[c]],
                !.sent = @ \o [i \in 1..Len(st.infos) |->
                                supplier(st.infos[i], r.info[1], entry.labels, conn)]]

\* one iteration of the loop of Collect, for the entry of conn: query the
\* descriptor once; on an error call the logger and delete the entry,
\* otherwise send the metric of every info, in the order of the infos
CollectOne(st, conn) ==
    LET entry == st.conns[conn]
        answer == sockets[ConnOfFd(entry.fd)]
        r == GetTCPInfo(entry.fd, Getsockopt(answer.errNo, answer.kinfo, answer.ksize))
    IN  IF r.err # 0
        THEN [st EXCEPT !.calls[conn] = @ + 1,
                        !.logged[conn] = Append(@, r.err),
                        !.conns = RemoveConn(@, conn)]
        ELSE [st EXCEPT
                !.calls[conn] = @ + 1,
                !.queried = [c \in (DOMAIN @) \cup {conn} |->
                                IF c = conn THEN r.info[1] ELSE @[c]],
                !.sent = @ \o [i \in 1..Len(st.infos) |->
                                supplier(st.infos[i], r.info[1], entry.labels, conn)]]

RECURSIVE CollectLoop(_, _)
\* the loop of Collect over the entries in the order the map range yields them
CollectLoop(st, order) ==
    IF order = <<>> THEN st
    ELSE CollectLoop(CollectOne(st, Head(order)), Tail(order))

\* the orders in which a range over a map with the keys S can yield them
RangeOrders(S) ==
    {o \in [1..Cardinality(S) -> S] : \A i, j \in 1..Cardinality(S) : o[i] = o[j] => i = j}

\* the state of Collect before its loop
CollectStart(c) ==
    [conns |-> c.conns, infos |-> c.infos,
     calls |-> [k \in DOMAIN c.conns |-> 0],
     queried |-> NoScrape.queried, sent |-> <<>>,
     logged |-> [k \in DOMAIN c.conns |-> <<>>]]

Collect ==
    /\ phase = "ready"
    /\ input.op = "exporter"
    /\ collector # <<>>
    /\ \E order \in RangeOrders(DOMAIN collector[1].conns) :
        \E st \in {CollectLoop(CollectStart(collector[1]), order)} :
            /\ collector' = <<[collector[1] EXCEPT !.conns = st.conns]>>
            /\ scrape' = [NoScrape EXCEPT !.op = "Collect",
                             !.gate = linuxKernelVersion,
                             !.before = collector[1].conns,
                             !.calls = st.calls,
                             !.queried = st.queried,
                             !.sent = st.sent,
                             !.metrics = {st.sent[i] : i \in 1..Len(st.sent)},
                             !.logged = st.logged]
            /\ lifecycle' = [c \in Conns |->
                                IF c \in DOMAIN st.logged /\ st.logged[c] # <<>>
                                THEN "failed" ELSE lifecycle[c]]
    /\ UNCHANGED <<linuxKernelVersion, phase, input, call, ret, prev, sockets, callerVars>>

\* kernels the exporter runs on: 5.4.0 (the floor), 5.5.0, 5.17.0
ExporterKernels ==
    {[Kernel |-> minKernel, Major |-> m, Minor |-> minKernelMinor] : m \in {4, 5, 17}}

\* a process that uses the exporter: package linux is initialised, no
\* collector is built yet, and every socket has its answer to getsockopt
InitExporter ==
    /\ \E v \in ExporterKernels :
        /\ linuxKernelVersion = <<v>>
        /\ call = [NoCall EXCEPT !.op = "init", !.gate = <<v>>,
                      !.k = minKernel, !.major = minKernelMajor, !.minor = minKernelMinor]
    /\ phase = "ready"
    /\ input = [DefaultInput EXCEPT !.op = "exporter"]
    /\ ret = [NoRet EXCEPT !.ok = TRUE]
    /\ prev = <<>>
    /\ sockets \in [Conns -> SocketAnswers]
    /\ collector = <<>>
    /\ scrape = NoScrape
    /\ lifecycle = NoLifecycle
    /\ threads = NoThreads
    /\ wrapped = NoWrapped

NextExporter ==
    \/ DoNewTCPInfoCollector
    \/ Describe
    \/ Add
    \/ Remove
    \/ Collect

SpecExporter == InitExporter /\ [][NextExporter]_vars

\* the gate is overridden in a process that holds a collector (only test code
\* assigns the gate after init)
GateOverride ==
    /\ phase = "ready"
    /\ input.op = "exporter"
    /\ collector # <<>>
    /\ \E v \in TestKernels : linuxKernelVersion' = <<v>>
    /\ UNCHANGED <<phase, input, call, ret, prev, exporterVars, callerVars>>

\* as InitExporter, with sockets that all answer
InitDrift ==
    /\ \E v \in ExporterKernels :
        /\ linuxKernelVersion = <<v>>
        /\ call = [NoCall EXCEPT !.op = "init", !.gate = <<v>>,
                      !.k = minKernel, !.major = minKernelMajor, !.minor = minKernelMinor]
    /\ phase = "ready"
    /\ input = [DefaultInput EXCEPT !.op = "exporter"]
    /\ ret = [NoRet EXCEPT !.ok = TRUE]
    /\ prev = <<>>
    /\ sockets \in [Conns -> {a \in SocketAnswers : a.errNo = 0}]
    /\ collector = <<>>
    /\ scrape = NoScrape
    /\ lifecycle = NoLifecycle
    /\ threads = NoThreads
    /\ wrapped = NoWrapped

NextDrift ==
    \/ DoNewTCPInfoCollector
    \/ Describe
    \/ Add
    \/ Remove
    \/ Collect
    \/ GateOverride

SpecDrift == InitDrift /\ [][NextDrift]_vars

\* one caller of each kind: of the functions of package linux or of the exporter
FrameInputs ==
    {[DefaultInput EXCEPT !.op = "CheckKernelVersion"],
     [DefaultInput EXCEPT !.op = "Unpack", !.packed = DistinctRaw(0)],
     [DefaultInput EXCEPT !.op = "GetTCPInfo", !.kinfo = DistinctRaw(100)],
     [DefaultInput EXCEPT !.op = "GetTCPInfo", !.errNo = EINVAL],
     [DefaultInput EXCEPT !.op = "exporter"]}

FrameSockets ==
    {[c \in Conns |-> IF c = 1 THEN [errNo |-> EAGAIN, kinfo |-> ZeroRaw,
                                      ksize |-> sizeOfRawTCPInfo]
                      ELSE [errNo |-> 0, kinfo |-> DistinctRaw(0),
                            ksize |-> sizeOfRawTCPInfo]]}

InitFrame ==
    /\ linuxKernelVersion = <<>>
    /\ phase = "start"
    /\ input \in FrameInputs
    /\ call = NoCall
    /\ ret = NoRet
    /\ prev = <<>>
    /\ sockets \in FrameSockets
    /\ collector = <<>>
    /\ scrape = NoScrape
    /\ lifecycle = NoLifecycle
    /\ threads = NoThreads
    /\ wrapped = NoWrapped

NextFrame ==
    \/ init
    \/ TestSetKernel
    \/ DoCheckKernelVersion
    \/ DoUnpack
    \/ DoGetTCPInfo
    \/ DoNewTCPInfoCollector
    \/ Describe
    \/ Add
    \/ Remove
    \/ Collect

SpecFrame == InitFrame /\ [][NextFrame]_vars

----------------------------------------------------------------------------
(* Vocabulary of the properties *)

\* the gate a call ran under is at least 5.5.0
AtLeast550(g) == g.Kernel > 5 \/ (g.Kernel = 5 /\ g.Major >= 5)

\* a is at or above b in the order on (Kernel, Major, Minor)
LexGE(a, b) ==
    \/ a.Kernel > b.Kernel
    \/ a.Kernel = b.Kernel /\ a.Major > b.Major
    \/ a.Kernel = b.Kernel /\ a.Major = b.Major /\ a.Minor >= b.Minor

\* the last call was packed.Unpack() for the raw block call.raw
IsUnpack == call.op = "Unpack" /\ ret.info # <<>>

\* the last call applied Unpack to call.raw, directly or inside GetTCPInfo
Unpacked == ret.unpacked /\ ret.info # <<>>

TCPInfoNames == {TCPInfoFields[i] : i \in 1..Len(TCPInfoFields)}

\* the TCPInfo with every field zero, but for the validity of FastOpenClientFail
ZeroTCPInfo(valid) ==
    [f \in TCPInfoNames |->
        IF f = "DeliveryRateAppLimited" THEN FALSE
        ELSE IF f = "FastOpenClientFail" THEN [Valid |-> valid, Value |-> 0]
        ELSE 0]

\* the fixed-width fields of the two structures, in declaration order
FixedRaw ==
    SelectSeq([i \in 1..Len(RawFields) |-> RawFields[i][1]],
              LAMBDA f : f \notin {"bitfield0", "bitfield1"})

FixedOut ==
    SelectSeq(TCPInfoFields,
              LAMBDA f : f \notin {"SndWScale", "RcvWScale", "DeliveryRateAppLimited",
                                   "FastOpenClientFail"})

\* the metrics of the description key that the last Collect sent for conn
MetricsOf(conn, key) ==
    {m \in scrape.metrics : m.conn = conn /\ m.description.fqName[2] = key}

\* the metrics that the last Collect sent for conn
MetricsFor(conn) == {m \in scrape.metrics : m.conn = conn}

\* the descriptions of a sequence of descriptions or infos carry the key
HasKey(descs, key) == \E i \in 1..Len(descs) : descs[i].fqName[2] = key

----------------------------------------------------------------------------
(* Concurrent callers of Unpack: each thread runs the statements of Unpack on
   its own raw block, in four groups, and the threads interleave between the
   groups *)

MaxThreads == 2
Threads == 1..MaxThreads

\* the raw blocks of the callers
ThreadBlocks ==
    {[ZeroRaw EXCEPT !.bitfield1 = 7], DistinctRaw(0),
     [DistinctRaw(100) EXCEPT !.bitfield0 = 165]}

\* the groups of statements of Unpack, in order, and where a thread is after
\* the last one
UnpackStages == <<"head", "bits", "gate", "tail", "return">>

\* the fields a group of statements assigns
FieldsOfStage(stage) ==
    IF stage = "head"
    THEN {"State", "CAState", "Retransmits", "Probes", "Backoff", "Options"}
    ELSE IF stage = "bits"
    THEN {"SndWScale", "RcvWScale", "DeliveryRateAppLimited"}
    ELSE IF stage = "gate"
    THEN {"FastOpenClientFail"}
    ELSE IF stage = "tail"
    THEN TCPInfoNames \ {"State", "CAState", "Retransmits", "Probes", "Backoff",
                         "Options", "SndWScale", "RcvWScale",
                         "DeliveryRateAppLimited", "FastOpenClientFail"}
    ELSE {}

\* the local variable unpacked after the statements of a stage ran; the
\* stage "gate" reads the gate and assigns only when it is at least 5.5.0
UnpackStage(stage, packed, unpacked) ==
    IF stage = "gate" /\ ~CheckKernelVersion(5, 5, 0)
    THEN unpacked
    ELSE [f \in TCPInfoNames |->
            IF f \in FieldsOfStage(stage) THEN Unpack(packed)[f] ELSE unpacked[f]]

\* the stage after a stage
NextStage(stage) ==
    UnpackStages[(CHOOSE i \in 1..Len(UnpackStages) : UnpackStages[i] = stage) + 1]

\* a thread that has not called Unpack yet
IdleThread(packed) ==
    [pc |-> "idle", packed |-> packed, unpacked |-> <<>>, result |-> <<>>,
     overlapped |-> FALSE]

\* some other thread is inside Unpack
OthersInside(t) == \E u \in Threads \ {t} : threads[u].pc \notin {"idle", "done"}

\* the call: var unpacked TCPInfo
UnpackEnter(t) ==
    /\ threads[t].pc = "idle"
    /\ threads' = [threads EXCEPT ![t].pc = "head",
                                  ![t].unpacked = <<ZeroTCPInfo(FALSE)>>,
                                  ![t].overlapped = @ \/ OthersInside(t)]
    /\ UNCHANGED <<linuxKernelVersion, phase, input, call, ret, prev, exporterVars, wrapped>>

\* variant: unpacked is one buffer that all the calls in progress write
UnpackStep_SharedBuffer(t) ==
    /\ threads[t].pc \in {"head", "bits", "gate", "tail"}
    /\ LET after == UnpackStage(threads[t].pc, threads[t].packed, threads[t].unpacked[1])
       IN  threads' = [u \in Threads |->
                IF u = t
                THEN [threads[t] EXCEPT !.pc = NextStage(@), !.unpacked = <<after>>,
                                        !.overlapped = @ \/ OthersInside(t)]
                ELSE IF threads[u].pc \notin {"idle", "done"}
                THEN [threads[u] EXCEPT !.unpacked = <<after>>]
                ELSE threads[u]]
    /\ UNCHANGED <<linuxKernelVersion, phase, input, call, ret, prev, exporterVars, wrapped>>

\* the next group of statements of the call of thread t
UnpackStep(t) ==
    /\ threads[t].pc \in {"head", "bits", "gate", "tail"}
    /\ LET after == UnpackStage(threads[t].pc, threads[t].packed, threads[t].unpacked[1])
       IN  threads' = [threads EXCEPT ![t].pc = NextStage(@),
                                      ![t].unpacked = <<after>>,
                                      ![t].overlapped = @ \/ OthersInside(t)]
    /\ UNCHANGED <<linuxKernelVersion, phase, input, call, ret, prev, exporterVars, wrapped>>

\* return &unpacked
UnpackReturn(t) ==
    /\ threads[t].pc = "return"
    /\ threads' = [threads EXCEPT ![t].pc = "done",
                                  ![t].result = threads[t].unpacked,
                                  ![t].overlapped = @ \/ OthersInside(t)]
    /\ UNCHANGED <<linuxKernelVersion, phase, input, call, ret, prev, exporterVars, wrapped>>

\* package linux is initialised and every thread holds its raw block
InitConcurrent ==
    /\ \E v \in TestKernels :
        /\ linuxKernelVersion = <<v>>
        /\ call = [NoCall EXCEPT !.op = "init", !.gate = <<v>>,
                      !.k = minKernel, !.major = minKernelMajor, !.minor = minKernelMinor]
    /\ phase = "ready"
    /\ input = [DefaultInput EXCEPT !.op = "threads"]
    /\ ret = [NoRet EXCEPT !.ok = TRUE]
    /\ prev = <<>>
    /\ sockets = NoSockets
    /\ collector = <<>>
    /\ scrape = NoScrape
    /\ lifecycle = NoLifecycle
    /\ threads \in [Threads -> {IdleThread(b) : b \in ThreadBlocks}]
    /\ wrapped = NoWrapped

NextConcurrent ==
    \/ \E t \in Threads : UnpackEnter(t)
    \/ \E t \in Threads : UnpackStep(t)
    \/ \E t \in Threads : UnpackReturn(t)

SpecConcurrent == InitConcurrent /\ [][NextConcurrent]_vars

-----------------------------------------------------------------------------
(* Concurrent callers of Add, Remove and Collect on one collector.  Every
   goroutine makes one call; a call locks t.mu, runs its body statement by
   statement and unlocks t.mu when it returns (defer).  Collect sends every
   metric on an unbuffered channel: the send completes when the consumer
   receives it. *)

\* the calls the goroutines make: a Collect, an Add that replaces the entry
\* of a connection and a Remove of that connection
LockCalls ==
    <<[op |-> "Collect", conn |-> 0, labels |-> <<>>],
      [op |-> "Add", conn |-> 1, labels |-> <<"server">>],
      [op |-> "Remove", conn |-> 1, labels |-> <<>>]>>

\* a goroutine before its call: the call, and the locals of Collect (the keys
\* its range has yet to yield, the key and entry of the iteration, the
\* result of GetTCPInfo and the index of the info whose metric it sends)
LockIdle(c) ==
    [pc |-> "idle", op |-> c.op, conn |-> c.conn, labels |-> c.labels,
     remaining |-> {}, cur |-> 0, entry |-> <<>>, tcpInfo |-> <<>>, err |-> 0, i |-> 0]

\* the map of a collector after Add(conn, {"client"}) for every connection
LockStartConns ==
    [c \in Conns |-> [fd |-> GetFdFromConn(c), labels |-> <<"client">>]]

\* the sockets of the connections: every one answers with the same block,
\* but the first one may fail
LockSockets ==
    LET answer == [errNo |-> 0, kinfo |-> [ZeroRaw EXCEPT !.bitfield1 = 2],
                   ksize |-> sizeOfRawTCPInfo]
    IN  {s \in [Conns -> SocketAnswers] :
            /\ s[1] \in {answer, [answer EXCEPT !.errNo = EAGAIN, !.kinfo = ZeroRaw]}
            /\ \A c \in Conns \ {1} : s[c] = answer}

\* the goroutine is between t.mu.Lock() and the deferred t.mu.Unlock()
InCritical(t) == threads[t].pc \in {"range", "logger", "send", "write", "unlock"}

\* the goroutine calls Add, Remove or Collect and reaches t.mu.Lock()
LockCall(t) ==
    /\ phase = "ready"
    /\ input.op = "lock"
    /\ threads[t].pc = "idle"
    /\ threads' = [threads EXCEPT ![t].pc = "lock"]
    /\ UNCHANGED <<linuxKernelVersion, phase, input, call, ret, prev, exporterVars, wrapped>>

\* variant: Lock returns whether or not the mutex is held
Lock_Barging(t) ==
    /\ phase = "ready"
    /\ input.op = "lock"
    /\ threads[t].pc = "lock"
    /\ collector' = <<[collector[1] EXCEPT !.mu = <<t>>]>>
    /\ threads' = [threads EXCEPT
                    ![t].pc = IF threads[t].op = "Collect" THEN "range" ELSE "write",
                    ![t].remaining = IF threads[t].op = "Collect"
                                     THEN DOMAIN collector[1].conns ELSE {}]
    /\ UNCHANGED <<linuxKernelVersion, phase, input, call, ret, prev, sockets, scrape,
                   lifecycle, wrapped>>

\* t.mu.Lock() returns once the mutex is free, and holds it; the range of
\* Collect starts over the keys of the map
Lock(t) ==
    /\ phase = "ready"
    /\ input.op = "lock"
    /\ threads[t].pc = "lock"
    /\ collector[1].mu = Unlocked
    /\ collector' = <<[collector[1] EXCEPT !.mu = <<t>>]>>
    /\ threads' = [threads EXCEPT
                    ![t].pc = IF threads[t].op = "Collect" THEN "range" ELSE "write",
                    ![t].remaining = IF threads[t].op = "Collect"
                                     THEN DOMAIN collector[1].conns ELSE {}]
    /\ UNCHANGED <<linuxKernelVersion, phase, input, call, ret, prev, sockets, scrape,
                   lifecycle, wrapped>>

\* the body of Add or of Remove: the one write of the map
Write(t) ==
    /\ phase = "ready"
    /\ input.op = "lock"
    /\ threads[t].pc = "write"
    /\ collector' = <<[collector[1] EXCEPT
                        !.conns = IF threads[t].op = "Add"
                                  THEN AddConn(@, threads[t].conn, threads[t].labels)
                                  ELSE RemoveConn(@, threads[t].conn)]>>
    /\ threads' = [threads EXCEPT ![t].pc = "unlock"]
    /\ UNCHANGED <<linuxKernelVersion, phase, input, call, ret, prev, sockets, scrape,
                   lifecycle, wrapped>>

\* the range of Collect yields a key that is still in the map, and
\* GetTCPInfo is called for its entry; or it has no key left and Collect returns
RangeNext(t) ==
    /\ phase = "ready"
    /\ input.op = "lock"
    /\ threads[t].pc = "range"
    /\ LET keys == threads[t].remaining \cap DOMAIN collector[1].conns
       IN  IF keys = {}
           THEN threads' = [threads EXCEPT ![t].pc = "unlock", ![t].remaining = {}]
           ELSE \E conn \in keys :
                LET entry == collector[1].conns[conn]
                    answer == sockets[ConnOfFd(entry.fd)]
                    r == GetTCPInfo(entry.fd,
                                    Getsockopt(answer.errNo, answer.kinfo, answer.ksize))
                IN  threads' = [threads EXCEPT
                        ![t].pc = IF r.err # 0 THEN "logger" ELSE "send",
                        ![t].remaining = keys \ {conn},
                        ![t].cur = conn,
                        ![t].entry = <<entry>>,
                        ![t].tcpInfo = r.info,
                        ![t].err = r.err,
                        ![t].i = IF r.err # 0 THEN 0 ELSE 1]
    /\ UNCHANGED <<linuxKernelVersion, phase, input, call, ret, prev, exporterVars, wrapped>>

\* the logger returns, and Collect deletes the entry and continues its range
LoggerReturn(t) ==
    /\ phase = "ready"
    /\ input.op = "lock"
    /\ threads[t].pc = "logger"
    /\ collector' = <<[collector[1] EXCEPT !.conns = RemoveConn(@, threads[t].cur)]>>
    /\ threads' = [threads EXCEPT ![t].pc = "range", ![t].err = 0]
    /\ UNCHANGED <<linuxKernelVersion, phase, input, call, ret, prev, sockets, scrape,
                   lifecycle, wrapped>>

\* the consumer receives the metric Collect is sending, which completes the
\* send; Collect goes on to the next info, or to the next key after the last
Receive(t) ==
    /\ phase = "ready"
    /\ input.op = "lock"
    /\ threads[t].pc = "send"
    /\ scrape' = [scrape EXCEPT
                    !.op = "Collect",
                    !.sent = <<supplier(collector[1].infos[threads[t].i],
                                        threads[t].tcpInfo[1],
                                        threads[t].entry[1].labels, threads[t].cur)>>]
    /\ threads' = IF threads[t].i < Len(collector[1].infos)
                  THEN [threads EXCEPT ![t].i = @ + 1]
                  ELSE [threads EXCEPT ![t].pc = "range", ![t].i = 0,
                                       ![t].tcpInfo = <<>>, ![t].entry = <<>>]
    /\ UNCHANGED <<linuxKernelVersion, phase, input, call, ret, prev, sockets, collector,
                   lifecycle, wrapped>>

\* variant: the call returns and the mutex stays held
Unlock_KeepsMu(t) ==
    /\ phase = "ready"
    /\ input.op = "lock"
    /\ threads[t].pc = "unlock"
    /\ threads' = [threads EXCEPT ![t].pc = "done"]
    /\ UNCHANGED <<linuxKernelVersion, phase, input, call, ret, prev, exporterVars, wrapped>>

\* the deferred t.mu.Unlock() as the call returns
Unlock(t) ==
    /\ phase = "ready"
    /\ input.op = "lock"
    /\ threads[t].pc = "unlock"
    /\ collector' = <<[collector[1] EXCEPT !.mu = Unlocked]>>
    /\ threads' = [threads EXCEPT ![t].pc = "done"]
    /\ UNCHANGED <<linuxKernelVersion, phase, input, call, ret, prev, sockets, scrape,
                   lifecycle, wrapped>>

\* a process on the minimum kernel whose collector holds every connection,
\* with goroutines about to call it; goroutines are interchangeable, so their calls are drawn in
\* the order of LockCalls
InitLock ==
    /\ \E v \in {w \in ExporterKernels : w.Major = minKernelMajor} :
        /\ linuxKernelVersion = <<v>>
        /\ call = [NoCall EXCEPT !.op = "init", !.gate = <<v>>,
                      !.k = minKernel, !.major = minKernelMajor, !.minor = minKernelMinor]
        /\ \E prefix \in Prefixes :
            collector = <<[NewTCPInfoCollector(prefix) EXCEPT !.conns = LockStartConns]>>
    /\ phase = "ready"
    /\ input = [DefaultInput EXCEPT !.op = "lock"]
    /\ ret = [NoRet EXCEPT !.ok = TRUE]
    /\ prev = <<>>
    /\ sockets \in LockSockets
    /\ scrape = NoScrape
    /\ lifecycle = NoLifecycle
    /\ \E a \in [Threads -> 1..Len(LockCalls)] :
        /\ \A t, u \in Threads : t <= u => a[t] <= a[u]
        /\ threads = [t \in Threads |-> LockIdle(LockCalls[a[t]])]
    /\ wrapped = NoWrapped

NextLock ==
    \/ \E t \in Threads : LockCall(t)
    \/ \E t \in Threads : Lock(t)
    \/ \E t \in Threads : Write(t)
    \/ \E t \in Threads : RangeNext(t)
    \/ \E t \in Threads : LoggerReturn(t)
    \/ \E t \in Threads : Receive(t)
    \/ \E t \in Threads : Unlock(t)

SpecLock == InitLock /\ [][NextLock]_vars

\* a goroutine that can run its next statement runs it (a waiter of
\* sync.Mutex gets the mutex once it is free), and the consumer of the
\* channel receives a metric that is being sent
SpecLockFair ==
    /\ SpecLock
    /\ \A t \in Threads :
        /\ WF_vars(Lock(t) \/ Write(t) \/ RangeNext(t) \/ LoggerReturn(t) \/ Unlock(t))
        /\ WF_vars(Receive(t))

-----------------------------------------------------------------------------
(* Package tcpinfo on a platform that is neither linux, darwin nor windows
   (tcpinfo_other.go).  A nilable Go value is a sequence of length at most
   one; the process state is the operating system it was built for, the
   last call and what it returned. *)

\* the values of GOOS
GoPlatforms ==
    {"aix", "android", "darwin", "dragonfly", "freebsd", "illumos", "ios", "js",
     "linux", "netbsd", "openbsd", "plan9", "solaris", "wasip1", "windows"}

\* the build tags that a value of GOOS satisfies: its own, and android
\* satisfies linux, ios darwin and illumos solaris
BuildTags(goos) ==
    {goos} \cup (IF goos = "android" THEN {"linux"}
                 ELSE IF goos = "ios" THEN {"darwin"}
                 ELSE IF goos = "illumos" THEN {"solaris"}
                 ELSE {})

\* //go:build !(linux || darwin || windows)
OtherBuild(goos) == BuildTags(goos) \cap {"linux", "darwin", "windows"} = {}

\* SysInfo{}: the struct has no field
EmptySysInfo == [type |-> "SysInfo", fields |-> {}]

\* the receivers of the methods of SysInfo: nil or a pointer to a SysInfo
SysInfoPointers == {<<>>, <<EmptySysInfo>>}

\* file descriptors handed to GetTCPInfo
OtherFds == 0..MaxFd

\* &Info{}: a pointer to an Info none of whose fields is set
SysInfo_ToInfo(s) == <<[type |-> "Info", fields |-> {}]>>

\* Warnings returns nil
SysInfo_Warnings(s) == <<>>

\* map[string]any{}: a map that is not nil and has no key
SysInfo_ToMap(s) == <<[k \in {} |-> 0]>>

\* json.Marshal of a map: an object with a member for every key, and no error
jsonMarshal(m) ==
    [json |-> IF m = <<>> THEN "null"
              ELSE IF DOMAIN m[1] = {} THEN "{}" ELSE "{...}",
     err |-> <<>>]

\* MarshalJSON marshals the map of ToMap
SysInfo_MarshalJSON(s) == jsonMarshal(SysInfo_ToMap(s))

\* variant: GetTCPInfo returns an empty SysInfo and no error
tcpinfo_GetTCPInfo_Empty(fd, goos) == [sysInfo |-> <<EmptySysInfo>>, err |-> <<>>]

\* GetTCPInfo returns nil and the error "<GOOS> is unsupported"
tcpinfo_GetTCPInfo(fd, goos) ==
    [sysInfo |-> <<>>, err |-> <<<<goos, " is unsupported">>>>]

\* Supported returns false
tcpinfo_Supported == FALSE

\* no call yet
OtherNoCall == [op |-> "none", fd |-> 0, recv |-> <<>>]

\* nothing returned yet
OtherNoRet ==
    [sysInfo |-> <<>>, err |-> <<>>, supported |-> <<>>, info |-> <<>>,
     warnings |-> <<>>, map |-> <<>>, json |-> <<>>]

DoOtherGetTCPInfo ==
    /\ input.op = "other"
    /\ \E fd \in OtherFds :
        /\ call' = [OtherNoCall EXCEPT !.op = "GetTCPInfo", !.fd = fd]
        /\ LET r == tcpinfo_GetTCPInfo(fd, input.goos)
           IN  ret' = [OtherNoRet EXCEPT !.sysInfo = r.sysInfo, !.err = r.err]
    /\ UNCHANGED <<linuxKernelVersion, phase, input, prev, exporterVars, callerVars>>

DoOtherSupported ==
    /\ input.op = "other"
    /\ call' = [OtherNoCall EXCEPT !.op = "Supported"]
    /\ ret' = [OtherNoRet EXCEPT !.supported = <<tcpinfo_Supported>>]
    /\ UNCHANGED <<linuxKernelVersion, phase, input, prev, exporterVars, callerVars>>

DoOtherToInfo ==
    /\ input.op = "other"
    /\ \E s \in SysInfoPointers :
        /\ call' = [OtherNoCall EXCEPT !.op = "ToInfo", !.recv = s]
        /\ ret' = [OtherNoRet EXCEPT !.info = SysInfo_ToInfo(s)]
    /\ UNCHANGED <<linuxKernelVersion, phase, input, prev, exporterVars, callerVars>>

DoOtherWarnings ==
    /\ input.op = "other"
    /\ \E s \in SysInfoPointers :
        /\ call' = [OtherNoCall EXCEPT !.op = "Warnings", !.recv = s]
        /\ ret' = [OtherNoRet EXCEPT !.warnings = SysInfo_Warnings(s)]
    /\ UNCHANGED <<linuxKernelVersion, phase, input, prev, exporterVars, callerVars>>

DoOtherToMap ==
    /\ input.op = "other"
    /\ \E s \in SysInfoPointers :
        /\ call' = [OtherNoCall EXCEPT !.op = "ToMap", !.recv = s]
        /\ ret' = [OtherNoRet EXCEPT !.map = SysInfo_ToMap(s)]
    /\ UNCHANGED <<linuxKernelVersion, phase, input, prev, exporterVars, callerVars>>

DoOtherMarshalJSON ==
    /\ input.op = "other"
    /\ \E s \in SysInfoPointers :
        /\ call' = [OtherNoCall EXCEPT !.op = "MarshalJSON", !.recv = s]
        /\ LET r == SysInfo_MarshalJSON(s)
           IN  ret' = [OtherNoRet EXCEPT !.json = <<r.json>>, !.err = r.err]
    /\ UNCHANGED <<linuxKernelVersion, phase, input, prev, exporterVars, callerVars>>

\* a process built for a platform on which tcpinfo_other.go is compiled;
\* package linux is not part of it
InitOther ==
    /\ \E goos \in {g \in GoPlatforms : OtherBuild(g)} :
        input = [op |-> "other", goos |-> goos]
    /\ linuxKernelVersion = <<>>
    /\ phase = "ready"
    /\ call = OtherNoCall
    /\ ret = OtherNoRet
    /\ prev = <<>>
    /\ sockets = NoSockets
    /\ collector = <<>>
    /\ scrape = NoScrape
    /\ lifecycle = NoLifecycle
    /\ threads = NoThreads
    /\ wrapped = NoWrapped

NextOther ==
    \/ DoOtherGetTCPInfo
    \/ DoOtherSupported
    \/ DoOtherToInfo
    \/ DoOtherWarnings
    \/ DoOtherToMap
    \/ DoOtherMarshalJSON

SpecOther == InitOther /\ [][NextOther]_vars

----------------------------------------------------------------------------
(* Wrapped connections (package conniver).  WrapConn and the Close of the
   connection it returns are described by the README; DialContext and the
   reporting function are those of the example program. *)

\* the states the reporting function is called with
Opened == "opened"
Closed == "closed"

\* the TCP information of a connection at the moment of a snapshot
InfoSamples ==
    {[RTT |-> 10, RTTVar |-> 2], [RTT |-> 25, RTTVar |-> 5], [RTT |-> 40, RTTVar |-> 8]}

\* a connection not dialled yet: trace lists what happened to it, reports
\* what the reporting function printed
Unwrapped ==
    [phase |-> "none", underlying |-> "none", OpenedInfo |-> <<>>,
     ClosedInfo |-> <<>>, trace |-> <<>>, reports |-> <<>>]

\* variant: the state is compared with Opened instead of Closed
ReportFn_OnOpened(c, state) ==
    IF state # Opened
    THEN c.reports
    ELSE Append(c.reports, [opened |-> c.OpenedInfo, closed |-> c.ClosedInfo,
                            underlying |-> c.underlying])

\* the reporting function of the example: it returns at once unless the state
\* is Closed, and then prints the RTT of c.OpenedInfo and of c.ClosedInfo
ReportFn(c, state) ==
    IF state # Closed
    THEN c.reports
    ELSE Append(c.reports, [opened |-> c.OpenedInfo, closed |-> c.ClosedInfo,
                            underlying |-> c.underlying])

\* WrapConn(conn, fn) on an established connection: the snapshot of the open
\* state is recorded and fn is called with Opened
WrapConn(c, info) ==
    LET snap == [c EXCEPT !.phase = "opened", !.OpenedInfo = <<info>>,
                          !.trace = Append(@, [ev |-> Opened, info |-> <<info>>])]
    IN  [snap EXCEPT !.reports = ReportFn(snap, Opened)]

\* Close of a wrapped connection: the snapshot of the closed state is
\* recorded, fn is called with Closed, then the underlying connection is closed
CloseWrapped(c, info) ==
    LET snap == [c EXCEPT !.phase = "closed", !.ClosedInfo = <<info>>,
                          !.trace = Append(@, [ev |-> Closed, info |-> <<info>>])]
        told == [snap EXCEPT !.reports = ReportFn(snap, Closed)]
    IN  [told EXCEPT !.underlying = "closed",
                     !.trace = Append(@, [ev |-> "underlying_closed", info |-> <<>>])]

\* DialContext of the example: dial, return the error if there is one,
\* otherwise wrap the connection
DialContext ==
    /\ input.op = "WrapConn"
    /\ \E conn \in Conns :
        /\ wrapped[conn].phase = "none"
        /\ \/ wrapped' = [wrapped EXCEPT ![conn].phase = "failed",
                            ![conn].trace = <<[ev |-> "dial_failed", info |-> <<>>]>>]
           \/ \E info \in InfoSamples :
                wrapped' = [wrapped EXCEPT ![conn] =
                    WrapConn([@ EXCEPT !.underlying = "open",
                                       !.trace = <<[ev |-> "established", info |-> <<>>]>>],
                             info)]
    /\ UNCHANGED <<linuxKernelVersion, phase, input, call, ret, prev, exporterVars, threads>>

\* the HTTP client closes a connection (CloseIdleConnections, or keep-alives
\* are disabled)
Close ==
    /\ input.op = "WrapConn"
    /\ \E conn \in Conns :
        /\ wrapped[conn].phase = "opened"
        /\ \E info \in InfoSamples :
            wrapped' = [wrapped EXCEPT ![conn] = CloseWrapped(@, info)]
    /\ UNCHANGED <<linuxKernelVersion, phase, input, call, ret, prev, exporterVars, threads>>

\* the example program before it dials
InitConn ==
    /\ linuxKernelVersion = <<[Kernel |-> minKernel, Major |-> minKernelMajor,
                               Minor |-> minKernelMinor]>>
    /\ call = [NoCall EXCEPT !.op = "init", !.gate = linuxKernelVersion,
                  !.k = minKernel, !.major = minKernelMajor, !.minor = minKernelMinor]
    /\ phase = "ready"
    /\ input = [DefaultInput EXCEPT !.op = "WrapConn"]
    /\ ret = [NoRet EXCEPT !.ok = TRUE]
    /\ prev = <<>>
    /\ sockets = NoSockets
    /\ collector = <<>>
    /\ scrape = NoScrape
    /\ lifecycle = NoLifecycle
    /\ threads = NoThreads
    /\ wrapped = [c \in Conns |-> Unwrapped]

NextConn ==
    \/ DialContext
    \/ Close

SpecConn == InitConn /\ [][NextConn]_vars

----------------------------------------------------------------------------
(* Properties *)

\* C1 (gating): whatever the flag byte, Unpack under a gate below 5.5.0
\* returns FastOpenClientFail with Valid = FALSE and Value = 0.
C1_Gating ==
    (IsUnpack /\ ~AtLeast550(call.gate[1]))
        => ret.info[1].FastOpenClientFail = [Valid |-> FALSE, Value |-> 0]

\* a flag byte with bits 1-2 (and every other bit) set was unpacked below 5.5.0
C1_Witness ==
    IsUnpack /\ ~AtLeast550(call.gate[1]) /\ call.raw.bitfield1 = 255

\* C2 (flag-byte round trip): under a gate of at least 5.5.0 a flag byte
\* flag | (enum << 1) unpacks to DeliveryRateAppLimited = (flag = 1) and
\* FastOpenClientFail = {Valid: true, Value: enum}.
C2_FlagByteRoundTrip ==
    \A flag \in 0..1, enum \in 0..3 :
        (IsUnpack /\ AtLeast550(call.gate[1]) /\ call.raw.bitfield1 = flag + 2 * enum)
            => /\ ret.info[1].DeliveryRateAppLimited = (flag = 1)
               /\ ret.info[1].FastOpenClientFail = [Valid |-> TRUE, Value |-> enum]

\* flag 1 with enum 2 was unpacked under a gate of at least 5.5.0
C2_Witness ==
    IsUnpack /\ AtLeast550(call.gate[1]) /\ call.raw.bitfield1 = 5
        /\ ret.info[1].FastOpenClientFail.Value = 2

\* C3 (window-scale round trip): a window-scale byte (r << 4) | s unpacks to
\* SndWScale = s and RcvWScale = r, and when it is the only non-zero byte of
\* the block every other field is zero or false, FastOpenClientFail being
\* valid exactly under a gate of at least 5.5.0.
C3_WindowScaleRoundTrip ==
    \A s \in 0..15, r \in 0..15 :
        (IsUnpack /\ call.raw.bitfield0 = 16 * r + s)
            => /\ ret.info[1].SndWScale = s
               /\ ret.info[1].RcvWScale = r
               /\ (call.raw = [ZeroRaw EXCEPT !.bitfield0 = 16 * r + s]
                    => ret.info[1] =
                         [ZeroTCPInfo(AtLeast550(call.gate[1])) EXCEPT
                             !.SndWScale = s, !.RcvWScale = r])

\* the block whose only non-zero byte is the window-scale byte 0x1F
C3_Witness ==
    IsUnpack /\ call.raw = [ZeroRaw EXCEPT !.bitfield0 = 31]
        /\ ret.info[1].SndWScale = 15 /\ ret.info[1].RcvWScale = 1

\* C4 (version comparison): CheckKernelVersion(k, major, minor) is true
\* exactly when the detected triple is at or above (k, major, minor) in
\* lexicographic order; init's own call is one of them.
C4_CheckKernelVersion ==
    (call.op \in {"CheckKernelVersion", "init"} /\ call.gate # <<>>)
        => (ret.ok <=> LexGE(call.gate[1],
                             [Kernel |-> call.k, Major |-> call.major,
                              Minor |-> call.minor]))

\* detected 5.4.0 asked for 5.4.0 answered true
C4_Witness ==
    /\ call.op = "CheckKernelVersion"
    /\ call.gate = <<[Kernel |-> 5, Major |-> 4, Minor |-> 0]>>
    /\ call.k = 5 /\ call.major = 4 /\ call.minor = 0
    /\ ret.ok

\* C5 (size check): a successful getsockopt that reports a length other than
\* sizeOfRawTCPInfo is rejected: Unpack is not applied and no record is
\* returned.
C5_LengthMismatchRejected ==
    (call.op = "GetTCPInfo" /\ call.errNo = 0 /\ call.length # sizeOfRawTCPInfo)
        => (~ret.unpacked /\ ret.info = <<>>)

\* C6 (error classification): errno 11, 22 and 2 come back as the package
\* values EAGAIN, EINVAL and ENOENT, which differ from each other, and every
\* other errno comes back as it is.
C6_ErrorClassification ==
    /\ EAGAIN # EINVAL /\ EAGAIN # ENOENT /\ EINVAL # ENOENT
    /\ (call.op = "GetTCPInfo" /\ call.errNo # 0)
        => /\ (call.errNo = 11 => ret.err = EAGAIN)
           /\ (call.errNo = 22 => ret.err = EINVAL)
           /\ (call.errNo = 2 => ret.err = ENOENT)
           /\ ret.err = call.errNo

\* getsockopt failed with EINVAL
C6_Witness ==
    call.op = "GetTCPInfo" /\ call.errNo = 22 /\ ret.err = EINVAL

\* C7 (record or error): a failed getsockopt gives (nil, error) with Unpack
\* never applied, a successful one gives (record, nil).
C7_RecordOrError ==
    call.op = "GetTCPInfo"
        => /\ (call.errNo # 0 => ret.info = <<>> /\ ret.err # 0 /\ ~ret.unpacked)
           /\ (call.errNo = 0 => ret.info # <<>> /\ ret.err = 0)
           /\ ((ret.info = <<>>) <=> (ret.err # 0))

\* getsockopt failed with an errno the package has no name for (EBADF)
C7_Witness ==
    call.op = "GetTCPInfo" /\ call.errNo = 9 /\ ret.info = <<>> /\ ret.err = 9

C9_StraightCopy ==
    Unpacked
        => /\ Len(FixedRaw) = Len(FixedOut)
           /\ \A i \in 1..Len(FixedOut) : ret.info[1][FixedOut[i]] = call.raw[FixedRaw[i]]
           /\ \A i, j \in 1..Len(FixedOut) :
                (i # j /\ call.raw[FixedRaw[j]] # call.raw[FixedRaw[i]])
                    => ret.info[1][FixedOut[i]] # call.raw[FixedRaw[j]]

\* a block whose fields all differ was unpacked
C9_Witness ==
    IsUnpack /\ call.raw = DistinctRaw(100) /\ ret.info[1].SndWnd = 154

\* C10 (all-zero block): the all-zero block unpacks to the all-zero record,
\* with FastOpenClientFail = {Valid: true, Value: 0} under a gate of at least
\* 5.5.0 and absent below.
C10_AllZero ==
    (Unpacked /\ call.raw = ZeroRaw)
        => /\ ret.info[1] = ZeroTCPInfo(AtLeast550(call.gate[1]))
           /\ ret.info[1].FastOpenClientFail.Valid = AtLeast550(call.gate[1])

\* the all-zero block was unpacked under the minimum kernel 5.4.0
C10_Witness ==
    /\ IsUnpack /\ call.raw = ZeroRaw
    /\ call.gate = <<[Kernel |-> 5, Major |-> 4, Minor |-> 0]>>
    /\ ~ret.info[1].FastOpenClientFail.Valid

\* C11 (always valid flag): under every gate, below 5.5.0 or not, Unpack
\* sets DeliveryRateAppLimited exactly when bit 0 of the flag byte is 1.
C11_DeliveryRateAppLimited ==
    IsUnpack => (ret.info[1].DeliveryRateAppLimited <=> call.raw.bitfield1 % 2 = 1)

\* the flag byte 1 was unpacked to true under a gate below 5.5.0
C11_Witness ==
    /\ IsUnpack /\ ~AtLeast550(call.gate[1])
    /\ call.raw.bitfield1 = 1 /\ ret.info[1].DeliveryRateAppLimited

\* C12 (fail-fast init): init panics when the detection fails or the detected
\* version is below 5.4.0; whenever the package is ready the gate holds a
\* version and CheckKernelVersion(5, 4, 0) is true.
C12_FailFastInit ==
    /\ (phase # "start" /\ call.op = "init"
            /\ (call.gate = <<>> \/ ~LexGE(call.gate[1],
                                          [Kernel |-> 5, Major |-> 4, Minor |-> 0])))
        => phase = "panicked"
    /\ phase = "ready"
        => /\ linuxKernelVersion # <<>>
           /\ CheckKernelVersion(5, 4, 0)
           /\ LexGE(linuxKernelVersion[1], [Kernel |-> 5, Major |-> 4, Minor |-> 0])

\* init detected a kernel below 5.4.0 and panicked
C12_Witness ==
    /\ phase = "panicked" /\ call.op = "init" /\ call.gate # <<>>
    /\ call.gate[1].Kernel = 5 /\ call.gate[1].Major = 3

\* the declared layout: the widths sum to sizeOfRawTCPInfo, every field is 1, 4
\* or 8 bytes wide and lies at a multiple of its width, and the Go layout is
\* the packed one, of the same size
RawLayoutExact ==
    /\ PackedOffsets[Len(RawFields)] + RawFields[Len(RawFields)][2] = sizeOfRawTCPInfo
    /\ \A i \in 1..Len(RawFields) :
        /\ RawFields[i][2] \in {1, 4, 8}
        /\ PackedOffsets[i] % RawFields[i][2] = 0
        /\ GoOffsets[i] = PackedOffsets[i]
    /\ GoSizeof = sizeOfRawTCPInfo

\* C17 (block size): the widths of the RawTCPInfo fields sum to 232 =
\* sizeOfRawTCPInfo, every field lies at a multiple of its width, the Go
\* layout of the structure has no padding and the same size, and that size is
\* the length GetTCPInfo hands to getsockopt.
C17_BlockSize ==
    /\ sizeOfRawTCPInfo = 232
    /\ RawLayoutExact
    /\ (call.op = "GetTCPInfo" /\ call.errNo # 0) => call.length = GoSizeof
    /\ (call.op = "GetTCPInfo" /\ call.errNo = 0 /\ input.ksize >= GoSizeof)
        => (call.length = GoSizeof /\ call.raw = input.kinfo)

\* getsockopt filled the whole structure, its last field included
C17_Witness ==
    /\ call.op = "GetTCPInfo" /\ call.errNo = 0 /\ call.length = 232
    /\ call.raw.snd_wnd = 154

\* C20 (ranges): Unpack yields SndWScale and RcvWScale in 0..15 and
\* FastOpenClientFail.Value in 0..3, the value being 0 whenever the field is
\* not valid.
C20_Ranges ==
    Unpacked
        => /\ ret.info[1].SndWScale \in 0..15
           /\ ret.info[1].RcvWScale \in 0..15
           /\ ret.info[1].FastOpenClientFail.Value \in 0..3
           /\ (~ret.info[1].FastOpenClientFail.Valid
                => ret.info[1].FastOpenClientFail.Value = 0)

\* the flag byte 0xFF was unpacked to the largest reason under a gate >= 5.5.0
C20_Witness ==
    /\ IsUnpack /\ call.raw.bitfield1 = 255
    /\ ret.info[1].FastOpenClientFail = [Valid |-> TRUE, Value |-> 3]

\* C13 (frame): a step of CheckKernelVersion, Unpack, GetTCPInfo or of an
\* operation of the collector leaves the gate and the caller's raw block
\* unchanged, and every step that changes the gate is a step of init or of the
\* unit test.
C13_Frame ==
    [][ /\ (DoCheckKernelVersion \/ DoUnpack \/ DoGetTCPInfo \/ DoNewTCPInfoCollector
                \/ Describe \/ Add \/ Remove \/ Collect)
            => (linuxKernelVersion' = linuxKernelVersion /\ input' = input)
        /\ (linuxKernelVersion' # linuxKernelVersion) => (init \/ TestSetKernel) ]_vars

\* Collect queried a connection (GetTCPInfo and Unpack ran) and the gate is
\* still the one init set
C13_Witness ==
    /\ scrape.op = "Collect" /\ DOMAIN scrape.queried # {}
    /\ call.op = "init" /\ linuxKernelVersion # <<>> /\ linuxKernelVersion = call.gate

\* C14 (gated registration): the collector holds the fastopen_client_fail
\* info exactly when the gate is at least 5.5.0; Describe sends its
\* description and Collect sends its metric, once for every connection it
\* could query, exactly in that case.
C14_FastOpenRegistration ==
    collector # <<>>
        => LET registered == AtLeast550(linuxKernelVersion[1])
               descriptions == [i \in 1..Len(collector[1].infos) |->
                                    collector[1].infos[i].description]
           IN  /\ HasKey(descriptions, FastOpenInfo[1]) <=> registered
               /\ scrape.op = "Describe"
                    => (HasKey(scrape.descs, FastOpenInfo[1]) <=> registered)
               /\ scrape.op = "Collect"
                    => \A c \in DOMAIN scrape.before :
                        Cardinality(MetricsOf(c, FastOpenInfo[1])) =
                            IF registered /\ c \in DOMAIN scrape.queried THEN 1 ELSE 0

\* under the gate 5.4.0 Collect queried a connection and sent its metrics,
\* fastopen_client_fail not among them
C14_Witness ==
    /\ scrape.op = "Collect" /\ collector # <<>>
    /\ linuxKernelVersion = <<[Kernel |-> 5, Major |-> 4, Minor |-> 0]>>
    /\ \E c \in DOMAIN scrape.queried :
        /\ MetricsOf(c, "snd_wnd") # {}
        /\ MetricsOf(c, FastOpenInfo[1]) = {}

\* C15 (graceful degradation): after Collect, a connection whose query failed
\* had the logger called once, with that error, is no longer in the map and
\* has no metric; every other connection is still in the map, was not logged
\* and has one metric per info.
C15_GracefulCollect ==
    scrape.op = "Collect"
        => \A c \in DOMAIN scrape.before :
            IF sockets[c].errNo # 0
            THEN /\ scrape.logged[c] = <<sockets[c].errNo>>
                 /\ c \notin DOMAIN collector[1].conns
                 /\ c \notin DOMAIN scrape.queried
                 /\ MetricsFor(c) = {}
            ELSE /\ scrape.logged[c] = <<>>
                 /\ c \in DOMAIN collector[1].conns
                 /\ collector[1].conns[c] = scrape.before[c]
                 /\ c \in DOMAIN scrape.queried
                 /\ Cardinality(MetricsFor(c)) = Len(collector[1].infos)

\* Collect ran over two connections: the query of one failed, the other was
\* collected
C15_Witness ==
    /\ scrape.op = "Collect"
    /\ \E c, d \in DOMAIN scrape.before :
        /\ sockets[c].errNo = EAGAIN /\ scrape.logged[c] = <<EAGAIN>>
        /\ sockets[d].errNo = 0 /\ MetricsFor(d) # {}

\* C18 (sentinel of the description): for every connection Collect could
\* query, the fastopen_client_fail metric is the reason 0..3 when the reason is
\* valid and the value its description announces, -1, when it is not.
C18_UnavailableIsMinusOne ==
    scrape.op = "Collect"
        => \A c \in DOMAIN scrape.queried :
            LET reason == scrape.queried[c].FastOpenClientFail
                announced == makeDescriptions("tcpinfo")[FastOpenInfo[1]].unavailable[1]
            IN  /\ reason.Value \in 0..3
                /\ {m.value : m \in MetricsOf(c, FastOpenInfo[1])} =
                        {IF reason.Valid THEN reason.Value ELSE announced}

RECURSIVE UnpackedUpTo(_, _)
\* the local variable unpacked of a call that runs alone on packed, when it
\* is about to run the stage
UnpackedUpTo(stage, packed) ==
    IF stage = "head" THEN ZeroTCPInfo(FALSE)
    ELSE LET before == UnpackStages[(CHOOSE i \in 1..Len(UnpackStages) :
                                        UnpackStages[i] = stage) - 1]
         IN  UnpackStage(before, packed, UnpackedUpTo(before, packed))

\* C16 (concurrent decode): in every interleaving of the calls of the
\* threads, each call holds at every stage what it would hold running alone
\* on its block, and returns Unpack of its block.
C16_ConcurrentUnpack ==
    \A t \in DOMAIN threads :
        /\ threads[t].pc \in {"head", "bits", "gate", "tail", "return"}
            => threads[t].unpacked = <<UnpackedUpTo(threads[t].pc, threads[t].packed)>>
        /\ threads[t].pc = "done"
            => threads[t].result = <<Unpack(threads[t].packed)>>

\* a call returned its record although it overlapped the call of a thread
\* that decodes another block and is still inside Unpack
C16_Witness ==
    \E t, u \in DOMAIN threads :
        /\ threads[t].pc = "done" /\ threads[t].overlapped
        /\ threads[u].pc = "tail" /\ threads[u].packed # threads[t].packed
        /\ threads[t].result = <<Unpack(threads[t].packed)>>
        /\ threads[t].result[1].FastOpenClientFail.Valid

\* the positions of the trace of a wrapped connection where ev happened
TraceAt(w, ev) == {i \in 1..Len(w.trace) : w.trace[i].ev = ev}

SentFor(conn) == SelectSeq(scrape.sent, LAMBDA m : m.conn = conn)

\* C21 (one acquisition per socket): Collect calls GetTCPInfo exactly once for
\* every connection registered when it starts; for a connection whose call
\* succeeded it sends one metric per info, in the order of the infos, each
\* with the description of its info, the labels of the entry and the value of
\* its field in the one record returned, DeliveryRateAppLimited as 1 or 0.
C21_OneAcquisition ==
    scrape.op = "Collect"
        => /\ DOMAIN scrape.calls = DOMAIN scrape.before
           /\ \A c \in DOMAIN scrape.before : scrape.calls[c] = 1
           /\ \A c \in DOMAIN scrape.queried :
                LET mine == SentFor(c)
                    rec == scrape.queried[c]
                    infos == collector[1].infos
                IN  /\ Len(mine) = Len(infos)
                    /\ \A i \in 1..Len(infos) :
                        /\ mine[i].description = infos[i].description
                        /\ mine[i].labelValues = scrape.before[c].labels
                        /\ mine[i].value =
                            IF infos[i].field = "DeliveryRateAppLimited"
                            THEN (IF rec.DeliveryRateAppLimited THEN 1 ELSE 0)
                            ELSE IF infos[i].field = "FastOpenClientFail"
                            THEN rec.FastOpenClientFail.Value
                            ELSE rec[infos[i].field]

\* Collect queried two connections, one application limited and one not, and
\* sent 1 for the first and 0 for the second
C21_Witness ==
    /\ scrape.op = "Collect"
    /\ \E c, d \in DOMAIN scrape.queried :
        /\ scrape.calls[c] = 1 /\ scrape.calls[d] = 1
        /\ scrape.queried[c].DeliveryRateAppLimited
        /\ ~scrape.queried[d].DeliveryRateAppLimited
        /\ {m.value : m \in MetricsOf(c, "delivery_rate_app_limited")} = {1}
        /\ {m.value : m \in MetricsOf(d, "delivery_rate_app_limited")} = {0}

\* C22 (reserved bits): a raw block that differs from the one unpacked only in
\* bits 3-7 of the flag byte decodes, under the same gate, to the same record.
C22_HighBitsIgnored ==
    (IsUnpack /\ linuxKernelVersion = call.gate)
        => \A b \in 0..255 :
            (b % 8 = call.raw.bitfield1 % 8)
                => Unpack([call.raw EXCEPT !.bitfield1 = b]) = ret.info[1]

\* the flag byte 0xFF was unpacked under a gate at or above 5.5.0 to the
\* record of the flag byte 0x07
C22_Witness ==
    /\ IsUnpack /\ linuxKernelVersion = call.gate /\ AtLeast550(call.gate[1])
    /\ call.raw.bitfield1 = 255
    /\ ret.info[1] = Unpack([call.raw EXCEPT !.bitfield1 = 7])
    /\ ret.info[1].FastOpenClientFail = [Valid |-> TRUE, Value |-> 3]

\* C23 (gate agreement): a fastopen_client_fail metric that Collect sends
\* under the gate the collector was built under comes from a record whose
\* FastOpenClientFail is valid, and carries its value; one that comes from an
\* invalid record is sent only when the collector was built under a gate at
\* or above 5.5.0 and Collect ran under a gate below it.
C23_GateAgreement ==
    scrape.op = "Collect"
        => \A c \in DOMAIN scrape.queried :
            \A m \in MetricsOf(c, FastOpenInfo[1]) :
                LET reason == scrape.queried[c].FastOpenClientFail
                IN  /\ scrape.gate = call.gate => reason.Valid
                    /\ ~reason.Valid
                        => /\ AtLeast550(call.gate[1])
                           /\ ~AtLeast550(scrape.gate[1])
                    /\ m.value = reason.Value

\* the collector was built under 5.5.0, the gate was lowered to 5.4.0, and
\* Collect sent the metric 0 from an invalid record whose raw bits say 3
C23_Witness ==
    /\ scrape.op = "Collect"
    /\ call.gate = <<[Kernel |-> 5, Major |-> 5, Minor |-> 0]>>
    /\ scrape.gate = <<[Kernel |-> 5, Major |-> 4, Minor |-> 0]>>
    /\ \E c \in DOMAIN scrape.queried :
        /\ sockets[c].kinfo.bitfield1 = 7
        /\ ~scrape.queried[c].FastOpenClientFail.Valid
        /\ {m.value : m \in MetricsOf(c, FastOpenInfo[1])} = {0}

\* C24 (removed connections stay out): a connection is in the map exactly
\* when its last Add was followed neither by a Remove of it nor by a failed
\* query of it in a Collect; and a Collect neither queries a connection that
\* is out of the map when it starts nor sends a metric for it.
C24_RemovedStaysOut ==
    /\ [](collector # <<>>
            => \A c \in Conns :
                c \in DOMAIN collector[1].conns <=> lifecycle[c] = "added")
    /\ [][scrape'.op = "Collect"
            => \A c \in Conns :
                lifecycle[c] # "added"
                    => /\ c \notin DOMAIN scrape'.calls
                       /\ c \notin DOMAIN scrape'.queried
                       /\ {m \in scrape'.metrics : m.conn = c} = {}]_vars

\* a Collect that ran after the query of one connection had failed in an
\* earlier Collect: that connection is not queried again, the other one is
C24_Witness ==
    /\ scrape.op = "Collect"
    /\ \E c, d \in Conns :
        /\ lifecycle[c] = "failed"
        /\ c \notin DOMAIN scrape.before
        /\ c \notin DOMAIN scrape.calls
        /\ MetricsFor(c) = {}
        /\ lifecycle[d] = "added"
        /\ scrape.calls[d] = 1
        /\ MetricsFor(d) # {}

\* C26 (Add and Remove on the map): after Add the map holds one entry for the
\* connection, with its descriptor and the labels of this call, whether or
\* not it held one before, and the entries of the other connections are as
\* before; after Remove the map holds no entry for the connection and the
\* other entries are as before, a Remove of a connection without an entry
\* leaves the map as it was, and a second Remove changes nothing.
C26_AddRemove ==
    /\ scrape.op = "Add"
        => LET conns == collector[1].conns
           IN  /\ DOMAIN conns = (DOMAIN scrape.before) \cup {scrape.conn}
               /\ conns[scrape.conn] = [fd |-> GetFdFromConn(scrape.conn),
                                        labels |-> scrape.labels]
               /\ \A c \in (DOMAIN scrape.before) \ {scrape.conn} :
                    conns[c] = scrape.before[c]
               /\ AddConn(conns, scrape.conn, scrape.labels) = conns
    /\ scrape.op = "Remove"
        => LET conns == collector[1].conns
           IN  /\ DOMAIN conns = (DOMAIN scrape.before) \ {scrape.conn}
               /\ \A c \in DOMAIN conns : conns[c] = scrape.before[c]
               /\ scrape.conn \notin DOMAIN scrape.before => conns = scrape.before
               /\ RemoveConn(conns, scrape.conn) = conns

\* Add on a connection that had an entry with other labels, while the other
\* connection keeps its entry
C26_Witness ==
    /\ scrape.op = "Add"
    /\ scrape.conn \in DOMAIN scrape.before
    /\ scrape.before[scrape.conn].labels # scrape.labels
    /\ collector[1].conns[scrape.conn].labels = scrape.labels
    /\ \E d \in (DOMAIN scrape.before) \ {scrape.conn} :
        collector[1].conns[d] = scrape.before[d]

\* the descriptions of the infos of the collector
InfoDescriptions ==
    {collector[1].infos[i].description : i \in 1..Len(collector[1].infos)}

\* C27 (Describe and Collect agree): Describe sends exactly the descriptions
\* of the infos; for every connection that Collect queried successfully the
\* descriptions of the metrics it sent are exactly those, the i-th metric
\* carrying the description of the i-th info; the descriptions are pairwise
\* different; and no step after the construction changes the infos.
C27_DescribeCollectAgree ==
    /\ [](scrape.op = "Describe"
            => /\ Len(scrape.descs) = Len(collector[1].infos)
               /\ {scrape.descs[i] : i \in 1..Len(scrape.descs)} = InfoDescriptions)
    /\ [](scrape.op = "Collect"
            => \A c \in DOMAIN scrape.queried :
                /\ {m.description : m \in MetricsFor(c)} = InfoDescriptions
                /\ Len(SentFor(c)) = Len(collector[1].infos)
                /\ \A i \in 1..Len(collector[1].infos) :
                    SentFor(c)[i].description = collector[1].infos[i].description)
    /\ [](collector # <<>>
            => Cardinality(InfoDescriptions) = Len(collector[1].infos))
    /\ [][collector # <<>> => collector'[1].infos = collector[1].infos]_vars

\* a collector built under 5.5.0 whose Collect, after the gate was lowered,
\* sent metrics with all of its 56 descriptions for a connection
C27_Witness ==
    /\ scrape.op = "Collect"
    /\ call.gate # scrape.gate
    /\ Cardinality(InfoDescriptions) = Len(InfoTable) + 1
    /\ \E c \in DOMAIN scrape.queried :
        {m.description : m \in MetricsFor(c)} = InfoDescriptions

\* the call of a goroutine applied to the map on its own
ApplyCall(conns, th) ==
    IF th.op = "Add" THEN {AddConn(conns, th.conn, th.labels)}
    ELSE IF th.op = "Remove" THEN {RemoveConn(conns, th.conn)}
    ELSE {CollectLoop(CollectStart([conns |-> conns, infos |-> collector[1].infos]),
                      order).conns : order \in RangeOrders(DOMAIN conns)}

RECURSIVE SeqResults(_, _)
\* the maps that the calls of the goroutines ts give, run one after another
\* in some order from conns
SeqResults(conns, ts) ==
    IF ts = {} THEN {conns}
    ELSE UNION {UNION {SeqResults(c, ts \ {t}) : c \in ApplyCall(conns, threads[t])} :
                    t \in ts}

\* C25 (mutual exclusion in the collector): of the goroutines that call Add,
\* Remove and Collect at most one is between Lock and Unlock, and it holds
\* the mutex; and when no call is under way the map is one that the calls
\* that returned give when they run one after another in some order.
C25_MutualExclusion ==
    input.op = "lock"
        => /\ \A t, u \in Threads : (InCritical(t) /\ InCritical(u)) => t = u
           /\ \A t \in Threads : InCritical(t) => collector[1].mu = <<t>>
           /\ (\A t \in Threads : threads[t].pc \in {"idle", "done"})
                => collector[1].conns
                    \in SeqResults(LockStartConns,
                                   {t \in Threads : threads[t].pc = "done"})

\* an Add and a Collect whose query of the connection of the Add failed have
\* both returned, and the map is that of Collect followed by Add
C25_Witness ==
    /\ input.op = "lock"
    /\ \E t, u \in Threads :
        /\ threads[t].op = "Collect" /\ threads[t].pc = "done"
        /\ threads[u].op = "Add" /\ threads[u].pc = "done"
        /\ sockets[threads[u].conn].errNo # 0
        /\ threads[u].conn \in DOMAIN collector[1].conns
        /\ collector[1].conns[threads[u].conn].labels = threads[u].labels
    /\ collector[1].mu = Unlocked

\* C28 (Collect terminates and releases the lock): with a consumer that
\* receives every metric and a logger that returns, every call of Collect,
\* Add or Remove that has reached Lock returns (from some point on every
\* goroutine has returned from its call or never made it); a call that has returned
\* does not hold the mutex; and while a Collect is sending a metric no call
\* that waits for the mutex gets it.
C28_CollectTerminates ==
    /\ <>[](\A t \in Threads : threads[t].pc \in {"idle", "done"})
    /\ [](\A t \in Threads : threads[t].pc = "done" => collector[1].mu # <<t>>)
    /\ [][\A t, u \in Threads :
            (threads[u].pc = "send" /\ threads[t].pc = "lock")
                => threads'[t].pc = "lock"]_vars

\* a Collect that holds the mutex is sending a metric after the first one
\* while an Add or a Remove waits for the mutex
C28_Witness ==
    /\ input.op = "lock"
    /\ \E t, u \in Threads :
        /\ threads[u].op = "Collect" /\ threads[u].pc = "send" /\ threads[u].i > 1
        /\ collector[1].mu = <<u>>
        /\ threads[t].op \in {"Add", "Remove"} /\ threads[t].pc = "lock"

====
